---- MODULE Spec2Model ----
(***************************************************************************)
(* A model of toil's CWL front end, src/toil/cwl/cwltoil.py: the fixpoint  *)
(* scheduler CWLWorkflow.run, the task graph it hands to the toil engine,  *)
(* the resolution of pending input objects (resolve_indirect and the       *)
(* MergeInputs classes), and the scatter/gather pair.                      *)
(***************************************************************************)
EXTENDS Integers, Sequences, FiniteSets, TLC

(***************************************************************************)
(* Bounds of the model.                                                    *)
(***************************************************************************)
\* steps of a workflow document
MaxSteps == 3
\* source references over all the input ports of a workflow document
MaxRefs == 3
\* passes of the scheduler's while loop that are counted (the count saturates)
MaxPasses == 4
\* sources of a merged input
MaxSources == 2
\* scattered keys of a step
MaxScatterKeys == 2
\* elements of the list of a scattered key
MaxLen == 3
\* children of a scatter job that the engine runs
MaxChildren == 2

(***************************************************************************)
(* Parameter identifiers.  A CWL identifier is "<scope>/<name>";           *)
(* shortname() keeps the name.  Scope 0 is the workflow itself, scope i    *)
(* is step i.                                                              *)
(***************************************************************************)
Shortname(id) == id[2]
WfIn == <<0, "in">>
\* an identifier that is neither a workflow input nor an output of a step
Ghost == <<0, "ghost">>
StepOut(i) == <<i, "out">>
WfOut == <<0, "result">>

RECURSIVE Concat(_)
Concat(ss) == IF ss = <<>> THEN <<>> ELSE Head(ss) \o Concat(Tail(ss))
RangeOf(seq) == {seq[k] : k \in 1..Len(seq)}

(***************************************************************************)
(* The parsed document (cwltool's model, read-only here).                  *)
(*   port:  [id, source (aslist; <<>> when the port has no "source"),      *)
(*           linkMerge ("" when absent), hasDefault, hasValueFrom]         *)
(*   step:  [id, inputs, outputs, scatter (aslist; <<>> when absent),      *)
(*           scatterMethod ("" when absent), embedded_tool]                *)
(*   tool:  [class, resourceReq, inputs, steps, outputs]                   *)
(*   workflow output: [id, source (<<>> when the key is absent),           *)
(*           outputSource]                                                 *)
(***************************************************************************)
Port(i, name, source) ==
    [id |-> <<i, name>>, source |-> source, linkMerge |-> "",
     hasDefault |-> FALSE, hasValueFrom |-> FALSE]

\* A field of a ResourceRequirement: a number, or a string that may hold
\* "$(" and may hold "${"
Number == [isString |-> FALSE, hasParen |-> FALSE, hasBrace |-> FALSE]
String(hasParen, hasBrace) ==
    [isString |-> TRUE, hasParen |-> hasParen, hasBrace |-> hasBrace]
\* no ResourceRequirement, or one that sets no field
NoRequirement == <<>>

ToolWith(resourceReq) ==
    [class |-> "CommandLineTool", resourceReq |-> resourceReq,
     inputs |-> <<>>, steps |-> <<>>, outputs |-> <<>>]
CommandLineTool(dynamic) ==
    [class |-> "CommandLineTool",
     resourceReq |-> IF dynamic THEN "coresMin" :> String(TRUE, FALSE) ELSE NoRequirement,
     inputs |-> <<>>, steps |-> <<>>, outputs |-> <<>>]
NoTool ==
    [class |-> "", resourceReq |-> NoRequirement,
     inputs |-> <<>>, steps |-> <<>>, outputs |-> <<>>]
Workflow(inputs, steps, outputs) ==
    [class |-> "Workflow", resourceReq |-> NoRequirement,
     inputs |-> inputs, steps |-> steps, outputs |-> outputs]
Step(i, ports, scatter, tool) ==
    [id |-> i, inputs |-> ports, outputs |-> <<StepOut(i)>>,
     scatter |-> scatter, scatterMethod |-> "", embedded_tool |-> tool]
Output(src, withSource) ==
    [id |-> WfOut, source |-> IF withSource THEN <<src>> ELSE <<>>,
     outputSource |-> src]

HasSource(inp) == inp.source # <<>>
HasScatter(step) == step.scatter # <<>>
StepSources(step) == Concat([k \in 1..Len(step.inputs) |-> step.inputs[k].source])

(***************************************************************************)
(* The task graph handed to the engine (toil.job.Job objects).             *)
(*   task: [kind, step, cwljob, tool]                                      *)
(*   children, followOns: the addChild / addFollowOn calls, in order       *)
(***************************************************************************)
Task(kind, step, cwljob, tool) ==
    [kind |-> kind, step |-> step, cwljob |-> cwljob, tool |-> tool]
AddTask(g, t) == [g EXCEPT !.tasks = Append(@, t)]
LastTask(g) == Len(g.tasks)
hasChild(g, j, c) == <<j, c>> \in RangeOf(g.children)
addChild(g, j, c) == [g EXCEPT !.children = Append(@, <<j, c>>)]
addFollowOn(g, j, f) == [g EXCEPT !.followOns = Append(@, <<j, f>>)]

\* the edges of the graph as the engine reads them
Predecessors(g, t) == {e[1] : e \in {x \in RangeOf(g.followOns) : x[2] = t}}
Parents(g, t) == {e[1] : e \in {x \in RangeOf(g.children) : x[2] = t}}
Successors(g, S) ==
    {e[2] : e \in {x \in RangeOf(g.children) \cup RangeOf(g.followOns) : x[1] \in S}}
RECURSIVE Reach(_, _, _)
Reach(g, S, k) == IF k = 0 THEN S ELSE Reach(g, S \cup Successors(g, S), k - 1)
\* the children of p and everything below them
Descendants(g, p) ==
    Reach(g, {e[2] : e \in {x \in RangeOf(g.children) : x[1] = p}}, Len(g.tasks))

(***************************************************************************)
(* Promise handles.  SelfJob(j) stands for the workflow's own resolved     *)
(* input: rv() is that concrete mapping and addChild goes to the workflow  *)
(* job j.  JobHandle(j) is a real job: rv() is a promise of its result.    *)
(***************************************************************************)
SelfJob(j) == [self |-> TRUE, j |-> j]
JobHandle(j) == [self |-> FALSE, j |-> j]
rv(h) == IF h.self THEN [kind |-> "cwljob", j |-> h.j] ELSE [kind |-> "rv", j |-> h.j]
Literal(name) == [kind |-> name, j |-> 0]
\* the jobs whose return value a pending input object holds a promise of
Reads(cwljob) ==
    UNION {{cwljob[k].srcs[n].rv.j : n \in {m \in 1..Len(cwljob[k].srcs) :
                                             cwljob[k].srcs[m].rv.kind = "rv"}} :
           k \in 1..Len(cwljob)}
\* a pending input that is one promise of a job's whole return value
WholeResultOf(j) ==
    <<[key |-> "", form |-> "tuple", srcs |-> <<[name |-> "", rv |-> rv(JobHandle(j))]>>,
       valueFrom |-> FALSE]>>

(***************************************************************************)
(* CWLWorkflow.run, lines 604-637: the pending input object of a step.     *)
(* One entry per input port, in port order; form "absent" when the key is  *)
(* not set, form "raise" when building it raises ValidationException.      *)
(***************************************************************************)
Sources(inp, promises) ==
    [n \in 1..Len(inp.source) |->
        [name |-> Shortname(inp.source[n]), rv |-> rv(promises[inp.source[n]])]]

MergeEntry_lenient(inp, promises) ==
    IF inp.linkMerge \in {"", "merge_nested"}
    THEN [form |-> "MergeInputsNested", srcs |-> Sources(inp, promises)]
    ELSE [form |-> "MergeInputsFlattened", srcs |-> Sources(inp, promises)]

\* lines 610-621
MergeEntry(inp, promises) ==
    LET linkMerge == IF inp.linkMerge # "" THEN inp.linkMerge ELSE "merge_nested"
    IN  IF linkMerge = "merge_nested"
        THEN [form |-> "MergeInputsNested", srcs |-> Sources(inp, promises)]
        ELSE IF linkMerge = "merge_flattened"
        THEN [form |-> "MergeInputsFlattened", srcs |-> Sources(inp, promises)]
        ELSE [form |-> "raise", srcs |-> <<>>]

\* a scheduler that would merge only when a port names several sources
SourceEntry_several(inp, promises) ==
    IF HasSource(inp)
    THEN IF Len(inp.source) > 1
         THEN MergeEntry(inp, promises)
         ELSE [form |-> "tuple", srcs |-> Sources(inp, promises)]
    ELSE IF inp.hasDefault
    THEN [form |-> "tuple", srcs |-> <<[name |-> "default", rv |-> Literal("default")]>>]
    ELSE [form |-> "absent", srcs |-> <<>>]

SourceEntry(inp, promises) ==
    IF HasSource(inp)
    THEN IF inp.linkMerge # "" \/ Len(inp.source) > 1
         THEN MergeEntry(inp, promises)
         ELSE [form |-> "tuple", srcs |-> Sources(inp, promises)]
    ELSE IF inp.hasDefault
    THEN [form |-> "tuple", srcs |-> <<[name |-> "default", rv |-> Literal("default")]>>]
    ELSE [form |-> "absent", srcs |-> <<>>]

\* a scheduler that would wrap valueFrom for a scattered step too
JobObjEntry_wrap(step, inp, promises) ==
    LET e == SourceEntry(inp, promises)
        key == Shortname(inp.id)
    IN  IF inp.hasValueFrom /\ e.form # "raise"
        THEN IF e.form # "absent"
             THEN [key |-> key, form |-> e.form, srcs |-> e.srcs, valueFrom |-> TRUE]
             ELSE [key |-> key, form |-> "tuple",
                   srcs |-> <<[name |-> "None", rv |-> Literal("None")]>>,
                   valueFrom |-> TRUE]
        ELSE [key |-> key, form |-> e.form, srcs |-> e.srcs, valueFrom |-> FALSE]

JobObjEntry(step, inp, promises) ==
    LET e == SourceEntry(inp, promises)
        key == Shortname(inp.id)
    IN  IF inp.hasValueFrom /\ ~HasScatter(step) /\ e.form # "raise"
        THEN IF e.form # "absent"
             THEN [key |-> key, form |-> e.form, srcs |-> e.srcs, valueFrom |-> TRUE]
             ELSE [key |-> key, form |-> "tuple",
                   srcs |-> <<[name |-> "None", rv |-> Literal("None")]>>,
                   valueFrom |-> TRUE]
        ELSE [key |-> key, form |-> e.form, srcs |-> e.srcs, valueFrom |-> FALSE]

JobObj(step, promises) ==
    [k \in 1..Len(step.inputs) |-> JobObjEntry(step, step.inputs[k], promises)]
JobObjRaises(jobobj) == \E k \in 1..Len(jobobj) : jobobj[k].form = "raise"

(***************************************************************************)
(* makeJob, lines 383-402: the job(s) that run one tool on one input       *)
(* object.  Gives the graph with the new tasks, the job to wire below the  *)
(* producers (wfjob) and the job whose result is the tool's (followOn).    *)
(***************************************************************************)
ResourceFields ==
    {"coresMin", "coresMax", "ramMin", "ramMax",
     "tmpdirMin", "tmpdirMax", "outdirMin", "outdirMax"}
DynamicResourceReq_cores(resourceReq) ==
    \E req \in {"coresMin", "coresMax"} \cap DOMAIN resourceReq :
        LET r == resourceReq[req]
        IN  r.isString /\ (r.hasParen \/ r.hasBrace)
\* lines 391-396: some field of the requirement is a string holding "$(" or "${"
DynamicResourceReq(resourceReq) ==
    \E req \in ResourceFields \cap DOMAIN resourceReq :
        LET r == resourceReq[req]
        IN  r.isString /\ (r.hasParen \/ r.hasBrace)

makeJob(g, tool, jobobj, step) ==
    IF tool.class = "Workflow"
    THEN LET g1 == AddTask(g, Task("CWLWorkflow", step, jobobj, tool))
             wfjob == LastTask(g1)
             g2 == AddTask(g1, Task("ResolveIndirect", step, WholeResultOf(wfjob), NoTool))
             followOn == LastTask(g2)
         IN  [g |-> addFollowOn(g2, wfjob, followOn), wfjob |-> wfjob, followOn |-> followOn]
    ELSE IF DynamicResourceReq(tool.resourceReq)
    THEN LET g1 == AddTask(g, Task("CWLJobWrapper", step, jobobj, tool))
         IN  [g |-> g1, wfjob |-> LastTask(g1), followOn |-> LastTask(g1)]
    ELSE LET g1 == AddTask(g, Task("CWLJob", step, jobobj, tool))
         IN  [g |-> g1, wfjob |-> LastTask(g1), followOn |-> LastTask(g1)]

\* a scheduler that would make the gather job a child of the scatter job
StepJobs_child(g, step, jobobj) ==
    IF HasScatter(step)
    THEN LET g1 == AddTask(g, Task("CWLScatter", step.id, jobobj, step.embedded_tool))
             wfjob == LastTask(g1)
             g2 == AddTask(g1, Task("CWLGather", step.id, WholeResultOf(wfjob), NoTool))
             followOn == LastTask(g2)
         IN  [g |-> addChild(g2, wfjob, followOn), wfjob |-> wfjob, followOn |-> followOn]
    ELSE makeJob(g, step.embedded_tool, jobobj, step.id)

\* lines 639-646: a scatter/gather pair for a scattered step, makeJob otherwise
StepJobs(g, step, jobobj) ==
    IF HasScatter(step)
    THEN LET g1 == AddTask(g, Task("CWLScatter", step.id, jobobj, step.embedded_tool))
             wfjob == LastTask(g1)
             g2 == AddTask(g1, Task("CWLGather", step.id, WholeResultOf(wfjob), NoTool))
             followOn == LastTask(g2)
         IN  [g |-> addFollowOn(g2, wfjob, followOn), wfjob |-> wfjob, followOn |-> followOn]
    ELSE makeJob(g, step.embedded_tool, jobobj, step.id)

\* a wiring that would not ask hasChild first
RECURSIVE Connect_always(_, _, _, _)
Connect_always(g, srcs, promises, wfjob) ==
    IF srcs = <<>> THEN g
    ELSE Connect_always(addChild(g, promises[Head(srcs)].j, wfjob),
                        Tail(srcs), promises, wfjob)

\* lines 650-655: wfjob becomes a child of the producer of every source, once
RECURSIVE Connect(_, _, _, _)
Connect(g, srcs, promises, wfjob) ==
    IF srcs = <<>> THEN g
    ELSE LET j == promises[Head(srcs)].j
         IN  Connect(IF ~hasChild(g, j, wfjob) THEN addChild(g, j, wfjob) ELSE g,
                     Tail(srcs), promises, wfjob)

\* a scheduler that would publish no promise for the step
Publish_none(promises, step, followOn) == promises

\* lines 661-662
Publish(promises, step, followOn) ==
    [id \in RangeOf(step.outputs) |-> JobHandle(followOn)] @@ promises

(***************************************************************************)
(* The scheduler's local state, s = [promises, jobs, alloutputs_fufilled,  *)
(* g, raised], and the body of its loops.                                  *)
(***************************************************************************)
StepInputsFufilled_strict(step, promises) ==
    \A k \in 1..Len(step.inputs) :
        /\ step.inputs[k].source # <<>> \/ step.inputs[k].hasDefault
        /\ \A n \in 1..Len(step.inputs[k].source) :
               step.inputs[k].source[n] \in DOMAIN promises

\* lines 597-603
StepInputsFufilled(step, promises) ==
    \A k \in 1..Len(step.inputs) :
        \A n \in 1..Len(step.inputs[k].source) :
            step.inputs[k].source[n] \in DOMAIN promises

NotYetScheduled_always(step, jobs) == TRUE

\* lines 596: a step is constructed once only
NotYetScheduled(step, jobs) == step.id \notin DOMAIN jobs

\* lines 604-662: construct, register, wire and publish one step
ScheduleStep(s, self, step) ==
    LET jobobj == JobObj(step, s.promises)
        made == StepJobs(s.g, step, jobobj)
        wired == Connect(made.g, StepSources(step), s.promises, made.wfjob)
        connected == Len(wired.children) > Len(made.g.children)
    IN  IF JobObjRaises(jobobj)
        THEN [s EXCEPT !.raised = "ValidationException"]
        ELSE [s EXCEPT !.jobs = (step.id :> made.followOn) @@ @,
                       !.g = IF connected THEN wired ELSE addChild(wired, self, made.wfjob),
                       !.promises = Publish(@, step, made.followOn)]

\* lines 664-667
SourcesCheck(s, step) ==
    [s EXCEPT !.alloutputs_fufilled = @ /\ StepInputsFufilled(step, s.promises)]

\* lines 596-667: the body of "for step in self.cwlwf.steps"
VisitStep(s, self, step) ==
    IF NotYetScheduled(step, s.jobs) /\ StepInputsFufilled(step, s.promises)
    THEN LET s1 == ScheduleStep(s, self, step)
         IN  IF s1.raised # "" THEN s1 ELSE SourcesCheck(s1, step)
    ELSE SourcesCheck(s, step)

\* a scheduler whose check of the workflow outputs would never pass
OutputsCheck_never(s, outputs) == [s EXCEPT !.alloutputs_fufilled = FALSE]

\* lines 669-673: the workflow outputs that carry a "source" key
OutputsCheck(s, outputs) ==
    [s EXCEPT !.alloutputs_fufilled =
        @ /\ \A k \in 1..Len(outputs) :
                \A n \in 1..Len(outputs[k].source) :
                    outputs[k].source[n] \in DOMAIN s.promises]

\* lines 578-586
SeedPromises(self, inputs) == [id \in RangeOf(inputs) |-> SelfJob(self)]

OutObj_bySource(outputs, promises) ==
    [k \in 1..Len(outputs) |->
        [key |-> Shortname(outputs[k].outputSource), form |-> "tuple",
         srcs |-> <<[name |-> Shortname(outputs[k].outputSource),
                     rv |-> rv(promises[outputs[k].outputSource])]>>,
         valueFrom |-> FALSE]]

\* lines 675-679: the output object, one tagged promise per workflow output
OutputsKnown(outputs, promises) ==
    \A k \in 1..Len(outputs) : outputs[k].outputSource \in DOMAIN promises
OutObj(outputs, promises) ==
    [k \in 1..Len(outputs) |->
        [key |-> Shortname(outputs[k].id), form |-> "tuple",
         srcs |-> <<[name |-> Shortname(outputs[k].outputSource),
                     rv |-> rv(promises[outputs[k].outputSource])]>>,
         valueFrom |-> FALSE]]

(***************************************************************************)
(* Values.  A CWL value is tagged with its python type: an int, a list     *)
(* of values, None, a dict (a function from keys to values), a promise of  *)
(* a job's return value that the engine has not replaced yet, or the       *)
(* result of cwltool.expression.do_eval, which is left uninterpreted: the  *)
(* expression (named by the port that carries it), the inputs object and   *)
(* the context it was evaluated with.                                      *)
(***************************************************************************)
IntV(n) == [t |-> "int", v |-> n]
ListV(s) == [t |-> "list", v |-> s]
NoneV == [t |-> "None", v |-> <<>>]
DictV(f) == [t |-> "dict", v |-> f]
PromiseV(j) == [t |-> "promise", v |-> j]
do_eval(expr, inputs, ctx) == [t |-> "eval", v |-> <<expr, inputs, ctx>>]
isList(v) == v.t = "list"
isDict(v) == v.t = "dict"

(***************************************************************************)
(* MergeInputs, lines 66-85.  A source is the pair (v[0], v[1]) of a key   *)
(* and the return value of the job the promise was of: [name, rv].         *)
(* An operation gives [raised, value]; raised is "" when it returns.       *)
(***************************************************************************)
Returns(v) == [raised |-> "", value |-> v]
Raises(e) == [raised |-> e, value |-> NoneV]

\* v[1][v[0]]: raises KeyError when the key is not there
HasKey(v) == v.name \in DOMAIN v.rv
Subscript(v) == v.rv[v.name]
\* v[1].get(v[0])
Get(v) == IF HasKey(v) THEN v.rv[v.name] ELSE NoneV
AllKeys(sources) == \A n \in 1..Len(sources) : HasKey(sources[n])

\* lines 72-74
MergeInputsNested_resolve(sources) ==
    IF AllKeys(sources)
    THEN Returns(ListV([n \in 1..Len(sources) |-> Subscript(sources[n])]))
    ELSE Raises("KeyError")

\* a merge that would splice nothing: every source is appended as one element
FlattenedAdd_append(r, v) == Append(r, v)
\* lines 81-84: one source is added to r
FlattenedAdd(r, v) == IF isList(v) THEN r \o v.v ELSE Append(r, v)
\* lines 78-85: the loop over the sources that are left
RECURSIVE FlattenedLoop(_, _)
FlattenedLoop(r, sources) ==
    IF sources = <<>> THEN r
    ELSE FlattenedLoop(FlattenedAdd(r, Subscript(Head(sources))), Tail(sources))
\* lines 76-85
MergeInputsFlattened_resolve(sources) ==
    IF AllKeys(sources)
    THEN Returns(ListV(FlattenedLoop(<<>>, sources)))
    ELSE Raises("KeyError")

(***************************************************************************)
(* resolve_indirect, lines 97-128, on an IndirectDict: the sequence of     *)
(* entries [key, form, srcs, valueFrom] that CWLWorkflow.run built, with   *)
(* every promise replaced by the return value of its job.                  *)
(***************************************************************************)
Present(d) == {k \in 1..Len(d) : d[k].form # "absent"}
KeysOf(d) == {d[k].key : k \in Present(d)}
EntryOf(d, key) == d[CHOOSE k \in Present(d) : d[k].key = key]

\* lines 100-104: one item of the inner object
ResolveItem(e) ==
    IF e.form = "MergeInputsNested" THEN MergeInputsNested_resolve(e.srcs)
    ELSE IF e.form = "MergeInputsFlattened" THEN MergeInputsFlattened_resolve(e.srcs)
    ELSE Returns(Get(e.srcs[1]))

\* lines 97-107, on the inner object (every StepValueFrom replaced by its inner)
resolve_indirect_inner(d) ==
    IF \E k \in Present(d) : ResolveItem(d[k]).raised # ""
    THEN Raises("KeyError")
    ELSE Returns([key \in KeysOf(d) |-> ResolveItem(EntryOf(d, key)).value])

\* a resolution in one pass over the keys: an expression would see the
\* results of the expressions of the keys before it
RECURSIVE EvalInOrder(_, _, _)
EvalInOrder(d, cur, k) ==
    IF k > Len(d) THEN cur
    ELSE EvalInOrder(d,
                     IF d[k].form # "absent" /\ d[k].valueFrom
                     THEN [cur EXCEPT ![d[k].key] = do_eval(d[k].key, cur, cur[d[k].key])]
                     ELSE cur,
                     k + 1)
resolve_indirect_onepass(d) ==
    LET inner == resolve_indirect_inner(d)
    IN  IF inner.raised # "" THEN inner ELSE Returns(EvalInOrder(d, inner.value, 1))

\* lines 109-128
resolve_indirect(d) ==
    LET inner == resolve_indirect_inner(d)
        res == inner.value
        needEval == \E k \in Present(d) : d[k].valueFrom
    IN  IF inner.raised # "" THEN inner
        ELSE IF needEval
        THEN Returns([key \in KeysOf(d) |->
                        IF EntryOf(d, key).valueFrom
                        THEN do_eval(key, res, res[key])
                        ELSE res[key]])
        ELSE inner

\* A deferred expression held in a plain dict (StepValueFrom, lines 87-95)
StepValueFromV(expr, inner) == [t |-> "StepValueFrom", v |-> <<expr, inner>>]

resolve_indirect_dict_dropNone(d) ==
    Returns([k \in {x \in DOMAIN d : d[x].t # "None"} |-> d[k]])

\* lines 109-128 when d is a plain dict and not an IndirectDict: the items
\* are copied into a new dict (110-117), _resolve_indirect_inner returns a
\* non-IndirectDict as it is (106-107), and the expressions are evaluated
\* on the copy (119-126)
resolve_indirect_dict(d) ==
    LET inner == [k \in DOMAIN d |->
                    IF d[k].t = "StepValueFrom" THEN d[k].v[2] ELSE d[k]]
        res == inner
        needEval == \E k \in DOMAIN d : d[k].t = "StepValueFrom"
    IN  IF needEval
        THEN Returns([k \in DOMAIN d |->
                        IF d[k].t = "StepValueFrom"
                        THEN do_eval(d[k].v[1], res, res[k])
                        ELSE res[k]])
        ELSE Returns(res)

(***************************************************************************)
(* CWLScatter, lines 405-488.  The state of a run is                       *)
(* st = [g, outputs, raised]: the graph with the children added so far,    *)
(* the outputs list being built and the exception raised ("" for none);    *)
(* an exception ends the loops.  A child's input object is a plain dict    *)
(* of values.                                                              *)
(***************************************************************************)
\* line 455: the keys of the step inputs that carry "valueFrom"
valueFrom(step) ==
    {Shortname(step.inputs[k].id) :
        k \in {m \in 1..Len(step.inputs) : step.inputs[m].hasValueFrom}}

\* a scatter that would apply no valueFrom expression
postScatterEval_skip(step, io) == io
\* lines 456-465
postScatterEval(step, io) ==
    [k \in DOMAIN io |-> IF k \in valueFrom(step) THEN do_eval(k, io, io[k]) ELSE io[k]]

\* lines 416-417 and 431-432: jo = copy(joborder); jo[key] = joborder[key][n]
SubstituteElement(joborder, scatter_key, n) ==
    [joborder EXCEPT ![scatter_key] = joborder[scatter_key].v[n]]

\* a scatter that would put every new promise at the head of outputs
ScatterChild_prepend(st, self, step, jo) ==
    LET made == makeJob(st.g, step.embedded_tool, jo, step.id)
    IN  [st EXCEPT !.g = addChild(made.g, self, made.wfjob),
                   !.outputs = <<PromiseV(made.followOn)>> \o @]
\* lines 420-422, 435-437 and 473-475: makeJob, addChild, outputs.append(rv)
ScatterChild(st, self, step, jo) ==
    LET made == makeJob(st.g, step.embedded_tool, jo, step.id)
    IN  [st EXCEPT !.g = addChild(made.g, self, made.wfjob),
                   !.outputs = Append(@, PromiseV(made.followOn))]

\* lines 412-424, from iteration n of the loop on
RECURSIVE flat_crossproduct_scatter(_, _, _, _, _, _)
flat_crossproduct_scatter(st, self, step, joborder, scatter_keys, n) ==
    LET scatter_key == Shortname(Head(scatter_keys))
        l == Len(joborder[scatter_key].v)
        jo == SubstituteElement(joborder, scatter_key, n)
    IN  IF st.raised # "" \/ n > l THEN st
        ELSE flat_crossproduct_scatter(
                 IF Len(scatter_keys) = 1
                 THEN ScatterChild(st, self, step, postScatterEval(step, jo))
                 ELSE flat_crossproduct_scatter(st, self, step, jo, Tail(scatter_keys), 1),
                 self, step, joborder, scatter_keys, n + 1)

\* a nested scatter that would extend outputs by the inner list
NestedAppend_extend(outputs, inner) == outputs \o inner
\* line 439: outputs.append(the list the inner call returned)
NestedAppend(outputs, inner) == Append(outputs, ListV(inner))

\* lines 426-440, from iteration n of the loop on; st.outputs is the local list
RECURSIVE nested_crossproduct_scatter(_, _, _, _, _, _)
nested_crossproduct_scatter(st, self, step, joborder, scatter_keys, n) ==
    LET scatter_key == Shortname(Head(scatter_keys))
        l == Len(joborder[scatter_key].v)
        jo == SubstituteElement(joborder, scatter_key, n)
        inner == nested_crossproduct_scatter([st EXCEPT !.outputs = <<>>], self, step, jo,
                                             Tail(scatter_keys), 1)
    IN  IF st.raised # "" \/ n > l THEN st
        ELSE nested_crossproduct_scatter(
                 IF Len(scatter_keys) = 1
                 THEN ScatterChild(st, self, step, postScatterEval(step, jo))
                 ELSE [inner EXCEPT !.outputs = NestedAppend(st.outputs, inner.outputs)],
                 self, step, joborder, scatter_keys, n + 1)

\* a substitution that would start from an empty object and not from a copy
DotSubstitute_empty(cwljob, scatter, i) ==
    [k \in {Shortname(x) : x \in RangeOf(scatter)} |-> cwljob[k].v[i]]

\* lines 470-471: copyjob[sc] = cwljob[sc][i] for every scattered key
DotSubstitute(cwljob, scatter, i) ==
    [k \in DOMAIN cwljob |->
        IF k \in {Shortname(x) : x \in RangeOf(scatter)} THEN cwljob[k].v[i] ELSE cwljob[k]]

\* lines 467-475, from iteration i of the loop on; cwljob[sc][i] raises
\* IndexError when the list of a scattered key has no element i
RECURSIVE dotproduct_scatter(_, _, _, _, _)
dotproduct_scatter(st, self, step, cwljob, i) ==
    IF st.raised # "" \/ i > Len(cwljob[Shortname(step.scatter[1])].v) THEN st
    ELSE IF \E x \in RangeOf(step.scatter) : i > Len(cwljob[Shortname(x)].v)
    THEN [st EXCEPT !.raised = "IndexError"]
    ELSE dotproduct_scatter(
             ScatterChild(st, self, step,
                          postScatterEval(step, DotSubstitute(cwljob, step.scatter, i))),
             self, step, cwljob, i + 1)

\* lines 468-475 with the values left out: n children, each on a plain input object
RECURSIVE ScatterLoop(_, _, _, _)
ScatterLoop(st, self, step, n) ==
    IF n = 0 THEN st
    ELSE ScatterChild(ScatterLoop(st, self, step, n - 1), self, step, <<>>)

\* a scatter that would go by the declared method whatever the number of keys
ScatterMethodOf_declared(step) == step.scatterMethod

\* lines 450-452
ScatterMethodOf_dotproduct(step) ==
    IF Len(step.scatter) = 1 \/ step.scatterMethod = "" THEN "dotproduct"
    ELSE step.scatterMethod

\* lines 450-452
ScatterMethodOf(step) == IF Len(step.scatter) = 1 THEN "dotproduct" ELSE step.scatterMethod

\* lines 442-488
CWLScatter_run(g, self, step, pending) ==
    LET r == resolve_indirect(pending)
        cwljob == r.value
        scatterMethod == ScatterMethodOf(step)
        st == [g |-> g, outputs |-> <<>>, raised |-> ""]
    IN  IF r.raised # "" THEN [st EXCEPT !.raised = r.raised]
        ELSE IF scatterMethod = "dotproduct"
        THEN dotproduct_scatter(st, self, step, cwljob, 1)
        ELSE IF scatterMethod = "nested_crossproduct"
        THEN nested_crossproduct_scatter(st, self, step, cwljob, step.scatter, 1)
        ELSE IF scatterMethod = "flat_crossproduct"
        THEN flat_crossproduct_scatter(st, self, step, cwljob, step.scatter, 1)
        ELSE [st EXCEPT !.raised = "ValidationException"]

(***************************************************************************)
(* CWLGather, lines 491-528.                                               *)
(***************************************************************************)
\* the engine replaces every promise by the return value of its job
RECURSIVE Fulfil(_, _)
Fulfil(obj, returned) ==
    IF obj.t = "promise" THEN returned[obj.v]
    ELSE IF isList(obj) THEN ListV([n \in 1..Len(obj.v) |-> Fulfil(obj.v[n], returned)])
    ELSE obj

\* a gather that would not descend into lists
extract_top(obj, k) ==
    IF isDict(obj) THEN IF k \in DOMAIN obj.v THEN obj.v[k] ELSE NoneV
    ELSE ListV(<<>>)
\* lines 505-514
RECURSIVE extract(_, _)
extract(obj, k) ==
    IF isDict(obj) THEN IF k \in DOMAIN obj.v THEN obj.v[k] ELSE NoneV
    ELSE IF isList(obj) THEN ListV([n \in 1..Len(obj.v) |-> extract(obj.v[n], k)])
    ELSE ListV(<<>>)

\* lines 516-528
CWLGather_run(step, outputs) ==
    [k \in {Shortname(o) : o \in RangeOf(step.outputs)} |-> extract(outputs, k)]

(***************************************************************************)
(* The workflow documents the scheduler is run on.                         *)
(*   Topology: every list of up to MaxSteps steps whose ports name,      *)
(*     MaxRefs times in all, the workflow input, a step output (its own,   *)
(*     an earlier or a later step's) or an identifier nothing produces;    *)
(*     a step has no port or one port with one or two sources.             *)
(*   OutputVariant: a chain of steps with every workflow output           *)
(*     declaration: none, or one naming any identifier, with or without   *)
(*     the "source" key beside "outputSource".                             *)
(*   PortVariant: a producer and a consumer whose ports have no source,   *)
(*     or name the same source twice, or name two sources.                 *)
(* The tool classes go round so that every class occurs.                   *)
(***************************************************************************)
ParamIds(n) == {WfIn, Ghost} \cup {StepOut(i) : i \in 1..n}
Before(a, b) == a[1] < b[1] \/ (a = WfIn /\ b = Ghost)
PortName(k) == IF k = 1 THEN "p1" ELSE "p2"
\* the ports of step i, from the source list of each
Ports(i, shape) == [k \in 1..Len(shape) |-> Port(i, PortName(k), shape[k])]
RefsOf(shape) == Len(Concat(shape))
\* the lists of k shapes drawn from S that hold at most budget references
RECURSIVE ShapeLists(_, _, _)
ShapeLists(S, k, budget) ==
    IF k = 0 THEN {<<>>}
    ELSE UNION {{Append(prefix, sh) : prefix \in ShapeLists(S, k - 1, budget - r),
                                      sh \in {x \in S : RefsOf(x) = r}} :
                    r \in {RefsOf(x) : x \in {y \in S : RefsOf(y) <= budget}}}

\* a nested workflow: its input and its output carry the names of the port
\* and of the output of the step that runs it
InnerIn == <<0, "p1">>
InnerWorkflow ==
    Workflow(<<InnerIn>>,
             <<Step(1, <<Port(1, "p1", <<InnerIn>>)>>, <<>>, CommandLineTool(FALSE))>>,
             <<[Output(StepOut(1), FALSE) EXCEPT !.id = <<0, "out">>]>>)
ToolOf(i, n) ==
    LET c == (i + n) % 4
    IN  IF c = 1 THEN CommandLineTool(TRUE)
        ELSE IF c = 3 THEN InnerWorkflow
        ELSE CommandLineTool(FALSE)
ScatterOf(i, n, shape) == IF (i + n) % 4 = 2 /\ shape # <<>> THEN << <<i, "p1">> >> ELSE <<>>
StepOf(i, n, shape) == Step(i, Ports(i, shape), ScatterOf(i, n, shape), ToolOf(i, n))

TopoShapes(ids) ==
    {<<>>}
    \cup {<< <<a>> >> : a \in ids}
    \cup {<< <<pr[1], pr[2]>> >> : pr \in {q \in ids \X ids : Before(q[1], q[2])}}
Topology(n, shapes) ==
    Workflow(<<WfIn>>, [i \in 1..n |-> StepOf(i, n, shapes[i])], <<Output(StepOut(n), FALSE)>>)
TopologyShapes(n) == ShapeLists(TopoShapes(ParamIds(n)), n, MaxRefs)

Chain(n) ==
    [i \in 1..n |-> StepOf(i, n, << <<IF i = 1 THEN WfIn ELSE StepOut(i - 1)>> >>)]
OutputLists(n) ==
    {<<>>} \cup {<<Output(src, withSource)>> : src \in ParamIds(n), withSource \in BOOLEAN}
OutputVariant(n, outputs) == Workflow(<<WfIn>>, Chain(n), outputs)

EdgeShapes(ids) ==
    {<< <<>> >>}
    \cup {<< <<a>>, <<>> >> : a \in ids}
    \cup {<< <<a>>, <<b>> >> : a \in ids, b \in ids}
PortVariant(shape) ==
    Workflow(<<WfIn>>, <<StepOf(1, 2, << <<WfIn>> >>), StepOf(2, 2, shape)>>,
             <<Output(StepOut(2), FALSE)>>)

\* the second of two steps has a port p1 with zero to two sources, any
\* linkMerge and maybe a default, and a port p2 with or without a source
\* and maybe a default
LinkMerges == {"", "merge_nested", "merge_flattened", "merge_zip"}
PortWith(i, name, source, linkMerge, hasDefault) ==
    [Port(i, name, source) EXCEPT !.linkMerge = linkMerge, !.hasDefault = hasDefault]
MergeSources(ids) ==
    {<<>>} \cup {<<a>> : a \in ids} \cup {<<a, b>> : a \in ids, b \in ids}
MergeVariant(src1, linkMerge, d1, src2, d2) ==
    Workflow(<<WfIn>>,
             <<StepOf(1, 2, << <<WfIn>> >>),
               Step(2, <<PortWith(2, "p1", src1, linkMerge, d1),
                         PortWith(2, "p2", src2, "", d2)>>,
                    <<>>, CommandLineTool(FALSE))>>,
             <<Output(StepOut(2), FALSE)>>)

\* a workflow without steps: its output is its input
NoSteps == Workflow(<<WfIn>>, <<>>, <<Output(WfIn, TRUE)>>)

IsDocument(doc) ==
    \/ \E n \in 1..MaxSteps :
          \/ \E shapes \in TopologyShapes(n) : doc = Topology(n, shapes)
          \/ \E outputs \in OutputLists(n) : doc = OutputVariant(n, outputs)
    \/ \E shape \in EdgeShapes(ParamIds(2)) : doc = PortVariant(shape)
    \/ \E src1 \in MergeSources(ParamIds(1)), linkMerge \in LinkMerges, d1 \in BOOLEAN,
          src2 \in {<<>>, <<Ghost>>}, d2 \in BOOLEAN :
          doc = MergeVariant(src1, linkMerge, d1, src2, d2)
    \/ doc = NoSteps

(***************************************************************************)
(* State.                                                                  *)
(*   cwlwf: the document of the workflow job;  pc: where CWLWorkflow.run   *)
(*   is;  stepIdx: the position of "for step in self.cwlwf.steps";         *)
(*   promises, jobs, alloutputs_fufilled: the locals of run;  graph: the   *)
(*   jobs created so far;  outobj: the value run returns;  raised: the     *)
(*   exception run ended with.                                             *)
(*   passes, passStart: history, the passes begun and the keys of         *)
(*   promises when the current pass began.                                 *)
(***************************************************************************)
VARIABLES cwlwf, pc, stepIdx, promises, jobs, alloutputs_fufilled, graph,
          outobj, raised, passes, passStart,
          step, cwljob, outputs, returned,
          finished, promised, early, failed, env

\* the locals of CWLWorkflow.run and their history
schedVars == <<cwlwf, stepIdx, promises, jobs, alloutputs_fufilled, passes, passStart>>
\* the fields of the one job whose run is modelled by itself
jobVars == <<step, cwljob, outputs, returned>>
\* the engine's bookkeeping
engineVars == <<finished, promised, early, failed, env>>
vars == <<pc, graph, outobj, raised, schedVars, jobVars, engineVars>>

NoSched ==
    /\ cwlwf = NoTool
    /\ stepIdx = 0
    /\ promises = <<>>
    /\ jobs = <<>>
    /\ alloutputs_fufilled = FALSE
    /\ passes = 0
    /\ passStart = {}
NoJob ==
    /\ step = Step(0, <<>>, <<>>, NoTool)
    /\ cwljob = <<>>
    /\ outputs = NoneV
    /\ returned = <<>>
NoEngine ==
    /\ finished = {}
    /\ promised = <<>>
    /\ early = {}
    /\ failed = <<>>
    /\ env = "ok"

\* the workflow job of the scheduler specification, and its follow-on
RootJob == 1
Locals == [promises |-> promises, jobs |-> jobs,
           alloutputs_fufilled |-> alloutputs_fufilled, g |-> graph, raised |-> raised]

\* main, lines 816-823: the jobs made for the document, before toil.start
RootGraph(tool) ==
    makeJob([tasks |-> <<>>, children |-> <<>>, followOns |-> <<>>], tool, <<>>, 0).g

InitSched ==
    /\ IsDocument(cwlwf)
    /\ pc = "ready"
    /\ stepIdx = 0
    /\ promises = <<>>
    /\ jobs = <<>>
    /\ alloutputs_fufilled = FALSE
    /\ graph = RootGraph(cwlwf)
    /\ outobj = <<>>
    /\ raised = ""
    /\ passes = 0
    /\ passStart = {}
    /\ NoJob
    /\ NoEngine

\* lines 571-586
RunBegin ==
    /\ pc = "ready"
    /\ promises' = SeedPromises(RootJob, cwlwf.inputs)
    /\ alloutputs_fufilled' = FALSE
    /\ pc' = "while"
    /\ UNCHANGED <<cwlwf, stepIdx, jobs, graph, outobj, raised, passes, passStart>>
    /\ UNCHANGED <<jobVars, engineVars>>

\* lines 587-595: the loop test holds, a pass over the steps begins
BeginPass ==
    /\ pc = "while"
    /\ ~alloutputs_fufilled
    /\ alloutputs_fufilled' = TRUE
    /\ stepIdx' = 1
    /\ pc' = "for"
    /\ passes' = IF passes < MaxPasses THEN passes + 1 ELSE passes
    /\ passStart' = DOMAIN promises
    /\ UNCHANGED <<cwlwf, promises, jobs, graph, outobj, raised>>
    /\ UNCHANGED <<jobVars, engineVars>>

\* lines 595-667: one step of the list is visited
ForStep ==
    /\ pc = "for"
    /\ stepIdx <= Len(cwlwf.steps)
    /\ LET s == VisitStep(Locals, RootJob, cwlwf.steps[stepIdx])
       IN  /\ promises' = s.promises
           /\ jobs' = s.jobs
           /\ alloutputs_fufilled' = s.alloutputs_fufilled
           /\ graph' = s.g
           /\ raised' = s.raised
           /\ pc' = IF s.raised # "" THEN "failed" ELSE "for"
    /\ stepIdx' = stepIdx + 1
    /\ UNCHANGED <<cwlwf, outobj, passes, passStart>>
    /\ UNCHANGED <<jobVars, engineVars>>

\* lines 669-673: the pass ends with the check of the workflow outputs
EndPass ==
    /\ pc = "for"
    /\ stepIdx > Len(cwlwf.steps)
    /\ alloutputs_fufilled' = OutputsCheck(Locals, cwlwf.outputs).alloutputs_fufilled
    /\ pc' = "while"
    /\ UNCHANGED <<cwlwf, stepIdx, promises, jobs, graph, outobj, raised, passes, passStart>>
    /\ UNCHANGED <<jobVars, engineVars>>

\* lines 587 and 675-679: the loop test fails, the output object is returned
Return ==
    /\ pc = "while"
    /\ alloutputs_fufilled
    /\ IF OutputsKnown(cwlwf.outputs, promises)
       THEN /\ outobj' = OutObj(cwlwf.outputs, promises)
            /\ pc' = "done"
            /\ UNCHANGED raised
       ELSE /\ raised' = "KeyError"
            /\ pc' = "failed"
            /\ UNCHANGED outobj
    /\ UNCHANGED <<cwlwf, stepIdx, promises, jobs, alloutputs_fufilled, graph, passes, passStart>>
    /\ UNCHANGED <<jobVars, engineVars>>

NextSched == RunBegin \/ BeginPass \/ ForStep \/ EndPass \/ Return

SpecSched == InitSched /\ [][NextSched]_vars
\* run is sequential code: it takes its next step whenever it has one
SpecSchedFair == SpecSched /\ WF_vars(NextSched)

(***************************************************************************)
(* Properties of the scheduler.                                            *)
(***************************************************************************)
StepOutputs(doc) == UNION {RangeOf(doc.steps[i].outputs) : i \in 1..Len(doc.steps)}
Producible(doc) == RangeOf(doc.inputs) \cup StepOutputs(doc)
UnsupportedMerge(inp) ==
    inp.linkMerge \notin {"", "merge_nested", "merge_flattened"}
\* every source of every step input is a workflow input or an output of a
\* step, and every linkMerge is one of the two merge policies
WellFormedSteps(doc) ==
    \A i \in 1..Len(doc.steps) :
        /\ RangeOf(StepSources(doc.steps[i])) \subseteq Producible(doc)
        /\ \A k \in 1..Len(doc.steps[i].inputs) : ~UnsupportedMerge(doc.steps[i].inputs[k])
\* <<i, j>>: step i reads an output of step j
DependsOn(doc) ==
    {d \in (1..Len(doc.steps)) \X (1..Len(doc.steps)) :
        RangeOf(StepSources(doc.steps[d[1]])) \cap RangeOf(doc.steps[d[2]].outputs) # {}}
RECURSIVE Closure(_, _)
Closure(R, k) ==
    IF k = 0 THEN R
    ELSE Closure(R \cup {<<ab[1][1], ab[2][2]>> : ab \in {x \in R \X R : x[1][2] = x[2][1]}}, k - 1)
AcyclicSteps(doc) ==
    \A d \in Closure(DependsOn(doc), Len(doc.steps)) : d[1] # d[2]
\* the jobs constructed for step id (the scatter job, or the job makeJob wires)
StepJobsOf(g, id) ==
    {t \in 1..Len(g.tasks) :
        /\ g.tasks[t].step = id
        /\ g.tasks[t].kind \in {"CWLJob", "CWLJobWrapper", "CWLWorkflow", "CWLScatter"}}
Unscheduled == {i \in 1..Len(cwlwf.steps) : cwlwf.steps[i].id \notin DOMAIN jobs}
EveryStepOnce ==
    \A i \in 1..Len(cwlwf.steps) :
        /\ cwlwf.steps[i].id \in DOMAIN jobs
        /\ Cardinality(StepJobsOf(graph, cwlwf.steps[i].id)) = 1
\* the while loop has been left (a KeyError is raised after it, at line 677)
LoopExited == pc = "done" \/ (pc = "failed" /\ raised = "KeyError")
\* a workflow output names an identifier that nothing produces
UnproducedOutput(doc) ==
    \E k \in 1..Len(doc.outputs) : doc.outputs[k].outputSource \notin Producible(doc)
\* a pass has ended that added no promise, and a step is still unscheduled
Stalled ==
    /\ pc = "while"
    /\ passes > 0
    /\ DOMAIN promises = passStart
    /\ Unscheduled # {}

\* C1: for a well-formed acyclic step list the scheduler's loop terminates, and
\* on termination every step has been constructed and registered exactly once.
C1_TerminatesEveryStepOnce ==
    (WellFormedSteps(cwlwf) /\ AcyclicSteps(cwlwf)) => <>(LoopExited /\ EveryStepOnce)

\* every "source" a workflow output carries is a workflow input or a step output
OutputSourcesProduced(doc) ==
    \A k \in 1..Len(doc.outputs) : RangeOf(doc.outputs[k].source) \subseteq Producible(doc)
\* what does hold of the loop: it terminates with every step constructed once when,
\* besides the step list being well-formed and acyclic, no workflow output keeps
\* the loop test from passing
TerminatesWhenOutputSourcesProduced ==
    (WellFormedSteps(cwlwf) /\ AcyclicSteps(cwlwf) /\ OutputSourcesProduced(cwlwf))
        => <>(LoopExited /\ EveryStepOnce)

\* the step that the for loop is about to visit
Visiting == pc = "for" /\ stepIdx <= Len(cwlwf.steps)
Visited == cwlwf.steps[stepIdx]
SourcesPromised(st) ==
    \A k \in 1..Len(st.inputs) : \A n \in 1..Len(st.inputs[k].source) :
        st.inputs[k].source[n] \in DOMAIN promises
Schedulable(st) == st.id \notin DOMAIN jobs /\ SourcesPromised(st)
\* the visit ended the run with the fatal error and left the step unscheduled
FailsUnscheduled ==
    /\ pc' = "failed"
    /\ raised' = "ValidationException"
    /\ jobs' = jobs
    /\ graph' = graph
    /\ promises' = promises

\* the statement of C18 as written: any input port with an unsupported
\* linkMerge value makes the visit of a schedulable step fail
C18_UnsupportedMergeIsFatal ==
    [][(Visiting /\ Schedulable(Visited)
        /\ \E k \in 1..Len(Visited.inputs) : UnsupportedMerge(Visited.inputs[k]))
       => FailsUnscheduled]_vars

\* C18: when a schedulable step is visited that has an input port with a
\* source whose linkMerge value is neither merge_nested nor merge_flattened,
\* the run fails with a validation error; the step is not registered, no job
\* is created, no edge is added and the promise map is not changed.
C18_UnsupportedMergeOfSourceIsFatal ==
    [][(Visiting /\ Schedulable(Visited)
        /\ \E k \in 1..Len(Visited.inputs) :
              HasSource(Visited.inputs[k]) /\ UnsupportedMerge(Visited.inputs[k]))
       => FailsUnscheduled]_vars

C18_Witness ==
    /\ pc = "failed"
    /\ raised = "ValidationException"
    /\ stepIdx = 3
    /\ DOMAIN jobs = {1}
    /\ Len(cwlwf.steps[2].inputs[1].source) = 2
    /\ UnsupportedMerge(cwlwf.steps[2].inputs[1])

\* the statement of C20 as written: a step not yet scheduled is constructed
\* by its visit if and only if all its sources are in the promise map
C20_ConstructedIffSourcesPromised ==
    [][(Visiting /\ Visited.id \notin DOMAIN jobs)
       => (Visited.id \in DOMAIN jobs' <=> SourcesPromised(Visited))]_vars

\* C20: a step not yet scheduled is constructed by its visit if and only if
\* all the sources of all its input ports are in the promise map and no port
\* with a source carries an unsupported linkMerge value; with all sources in
\* the map and such a port the run fails.  Ports without a source and
\* defaults play no part.
C20_ConstructedIffSourcesPromisedAndMergeSupported ==
    [][(Visiting /\ Visited.id \notin DOMAIN jobs)
       => LET unsupported ==
                  \E k \in 1..Len(Visited.inputs) :
                      HasSource(Visited.inputs[k]) /\ UnsupportedMerge(Visited.inputs[k])
          IN  /\ Visited.id \in DOMAIN jobs'
                    <=> (SourcesPromised(Visited) /\ ~unsupported)
              /\ (SourcesPromised(Visited) /\ unsupported) => pc' = "failed"
              /\ ~SourcesPromised(Visited) => (graph' = graph /\ pc' = "for")]_vars

C20_Witness ==
    /\ pc = "for"
    /\ stepIdx = 3
    /\ passes = 2
    /\ DOMAIN jobs = {1}
    /\ cwlwf.steps[2].inputs[1].source = <<Ghost>>
    /\ cwlwf.steps[2].inputs[1].hasDefault
    /\ cwlwf.steps[2].inputs[2].source = <<>>

\* C14: no step of the scheduler removes a key of the promise map or maps a
\* key that is already in it to another producer.
C14_PromisesOnlyGrow ==
    [][\A k \in DOMAIN promises :
          k \in DOMAIN promises' /\ promises'[k] = promises[k]]_vars

C14_Witness ==
    /\ passes >= 2
    /\ pc = "for"
    /\ \E i \in 1..Len(cwlwf.steps) : StepOut(i) \in passStart
    /\ \E k \in DOMAIN promises : k \notin passStart

\* the job of a scheduled step that is wired below the producers
WfJobOf(id) == CHOOSE t \in StepJobsOf(graph, id) : TRUE
\* how often the edge from parent p to child c was added
EdgeCount(p, c) ==
    Cardinality({n \in 1..Len(graph.children) : graph.children[n] = <<p, c>>})
\* the jobs reached from the workflow job through child and follow-on edges
Reachable == Reach(graph, {RootJob}, Len(graph.tasks))

\* C21: the job of every scheduled step is a child of the producer that the
\* promise map holds for every source of its input ports, by one edge per
\* producer however many ports name it; the job of a scheduled step none of
\* whose ports has a source is a child of the workflow job; and every job of
\* the graph is reached from the workflow job through child and follow-on
\* edges.
C21_ChildOfEveryProducer ==
    /\ \A i \in 1..Len(cwlwf.steps) :
          cwlwf.steps[i].id \in DOMAIN jobs =>
              LET st == cwlwf.steps[i]
                  wfjob == WfJobOf(st.id)
              IN  /\ \A src \in RangeOf(StepSources(st)) :
                        EdgeCount(promises[src].j, wfjob) = 1
                  /\ StepSources(st) = <<>> => EdgeCount(RootJob, wfjob) = 1
                  /\ \A p \in Parents(graph, wfjob) :
                        \/ \E src \in RangeOf(StepSources(st)) : p = promises[src].j
                        \/ StepSources(st) = <<>> /\ p = RootJob
    /\ 1..Len(graph.tasks) \subseteq Reachable

\* a step whose two ports name the same output of another step has been
\* scheduled, and a step after a step without any source
C21_Witness ==
    /\ pc = "done"
    /\ DOMAIN jobs = {1, 2}
    /\ Len(cwlwf.steps[2].inputs) = 2
    /\ cwlwf.steps[2].inputs[1].source = <<StepOut(1)>>
    /\ cwlwf.steps[2].inputs[2].source = <<StepOut(1)>>
    /\ EdgeCount(jobs[1], WfJobOf(2)) = 1

\* the scheduler is between two visits of a step, or has ended
BetweenVisits == pc \in {"while", "for", "done", "failed"}
Scheduled == {i \in 1..Len(cwlwf.steps) : cwlwf.steps[i].id \in DOMAIN jobs}
\* the class of the job that holds the result of a step
ResultKind(st) ==
    IF HasScatter(st) THEN {"CWLGather"}
    ELSE IF st.embedded_tool.class = "Workflow" THEN {"ResolveIndirect"}
    ELSE {"CWLJob", "CWLJobWrapper"}

\* C22: between two visits of a step the keys of the promise map are the
\* identifiers of the workflow inputs and of the outputs of the steps that
\* are registered in jobs, and no other; a workflow input maps to the
\* self-promise of the workflow job, and an output of a step maps to the job
\* registered for the step, which is the gather job of a scattered step, the
\* ResolveIndirect follow-on of a nested workflow, and the leaf or
\* deferred-wrap job otherwise.
C22_PromiseMapKeys ==
    BetweenVisits =>
        /\ DOMAIN promises =
               RangeOf(cwlwf.inputs)
               \cup UNION {RangeOf(cwlwf.steps[i].outputs) : i \in Scheduled}
        /\ \A id \in RangeOf(cwlwf.inputs) : promises[id] = SelfJob(RootJob)
        /\ \A i \in Scheduled : \A id \in RangeOf(cwlwf.steps[i].outputs) :
              LET st == cwlwf.steps[i]
                  result == promises[id].j
              IN  /\ promises[id] = JobHandle(jobs[st.id])
                  /\ graph.tasks[result].step = st.id
                  /\ graph.tasks[result].kind \in ResultKind(st)
                  /\ result # WfJobOf(st.id) <=> <<WfJobOf(st.id), result>> \in RangeOf(graph.followOns)
                  /\ result = WfJobOf(st.id) <=> graph.tasks[result].kind \in {"CWLJob", "CWLJobWrapper"}

\* a plain step, a deferred-wrap step and a scattered step are scheduled
C22_Witness ==
    /\ pc = "for"
    /\ Scheduled = {1, 2, 3}
    /\ graph.tasks[jobs[1]].kind = "CWLJob"
    /\ graph.tasks[jobs[2]].kind = "CWLJobWrapper"
    /\ graph.tasks[jobs[3]].kind = "CWLGather"
    /\ DOMAIN promises = {WfIn, StepOut(1), StepOut(2), StepOut(3)}

\* the values a producer may hold under the key that a source names
ProbeValues == {IntV(7), ListV(<<IntV(7), IntV(8)>>)}
\* entry e with the promise of every source replaced by a return value that
\* holds v under the source's key
Fulfilled(e, v) ==
    [e EXCEPT !.srcs = [n \in 1..Len(e.srcs) |->
                           [name |-> e.srcs[n].name, rv |-> e.srcs[n].name :> v]]]
IsMerge(e) == e.form \in {"MergeInputsNested", "MergeInputsFlattened"}

\* C26: in the pending input object of a scheduled step the entry of a port
\* is a merge exactly when the port has a source and names more than one
\* source or declares linkMerge, and the merge is merge_nested when no
\* linkMerge is declared; the entry of a port with a source holds one
\* promise per source, whether or not the port has a default; a port with
\* one source and a declared linkMerge resolves to a list (of one element
\* under merge_nested), one with one source and no linkMerge to the bare
\* value; a port with only a default resolves to the default, and a port
\* with neither has no entry.
C26_MergeSpecWhen ==
    \A i \in Scheduled :
        LET st == cwlwf.steps[i]
            jobobj == graph.tasks[WfJobOf(st.id)].cwljob
        IN  \A k \in 1..Len(st.inputs) :
               LET inp == st.inputs[k]
                   e == jobobj[k]
               IN  /\ IsMerge(e) <=>
                          (HasSource(inp) /\ (Len(inp.source) > 1 \/ inp.linkMerge # ""))
                   /\ (IsMerge(e) /\ inp.linkMerge = "") => e.form = "MergeInputsNested"
                   /\ (IsMerge(e) /\ inp.linkMerge # "") =>
                          e.form = IF inp.linkMerge = "merge_nested"
                                   THEN "MergeInputsNested" ELSE "MergeInputsFlattened"
                   /\ HasSource(inp) =>
                          /\ Len(e.srcs) = Len(inp.source)
                          /\ \A n \in 1..Len(e.srcs) :
                                /\ e.srcs[n].name = Shortname(inp.source[n])
                                /\ e.srcs[n].rv = rv(promises[inp.source[n]])
                   /\ (HasSource(inp) /\ Len(inp.source) = 1) =>
                          \A v \in ProbeValues :
                              LET r == ResolveItem(Fulfilled(e, v)).value
                              IN  /\ inp.linkMerge = "" => r = v
                                  /\ inp.linkMerge # "" => r.t = "list"
                                  /\ inp.linkMerge = "merge_nested" => r = ListV(<<v>>)
                   /\ (~HasSource(inp) /\ inp.hasDefault) =>
                          /\ e.form = "tuple"
                          /\ e.srcs = <<[name |-> "default", rv |-> Literal("default")]>>
                          /\ \A v \in ProbeValues : ResolveItem(Fulfilled(e, v)).value = v
                   /\ (~HasSource(inp) /\ ~inp.hasDefault) => e.form = "absent"

\* a step is scheduled whose first port has one source, merge_nested and a
\* default, and whose second port has only a default
C26_Witness ==
    /\ pc = "done"
    /\ Scheduled = {1, 2}
    /\ Len(cwlwf.steps[2].inputs) = 2
    /\ cwlwf.steps[2].inputs[1].source = <<StepOut(1)>>
    /\ cwlwf.steps[2].inputs[1].linkMerge = "merge_nested"
    /\ cwlwf.steps[2].inputs[1].hasDefault
    /\ cwlwf.steps[2].inputs[2].source = <<>>
    /\ cwlwf.steps[2].inputs[2].hasDefault
    /\ graph.tasks[WfJobOf(2)].cwljob[1].form = "MergeInputsNested"

\* the workflow names no identifier that nothing produces, has no cycle and
\* declares no unsupported linkMerge
WellFormed(doc) ==
    /\ WellFormedSteps(doc)
    /\ AcyclicSteps(doc)
    /\ OutputSourcesProduced(doc)
    /\ ~UnproducedOutput(doc)
\* every source of a step is a workflow input or an output of a step before it
InDependencyOrder(doc) ==
    \A i \in 1..Len(doc.steps) :
        RangeOf(StepSources(doc.steps[i])) \subseteq
            RangeOf(doc.inputs) \cup UNION {RangeOf(doc.steps[j].outputs) : j \in 1..(i - 1)}
\* the for loop of a pass has visited every step
PassOver == pc = "for" /\ stepIdx > Len(cwlwf.steps)
\* the steps that were scheduled in the current pass
NewlyScheduled == {i \in Scheduled : ~(RangeOf(cwlwf.steps[i].outputs) \subseteq passStart)}
MaxOf(a, b) == IF a > b THEN a ELSE b
\* what holds of the passes over any well-formed workflow
PassesBounded ==
    WellFormed(cwlwf) =>
        /\ passes <= MaxOf(1, Len(cwlwf.steps))
        /\ (InDependencyOrder(cwlwf) /\ PassOver) =>
               (passes = 1 /\ Scheduled = 1..Len(cwlwf.steps))

\* the statement of C28 as written: every pass schedules a new step
C28_EveryPassSchedules ==
    /\ PassesBounded
    /\ (WellFormed(cwlwf) /\ PassOver) => NewlyScheduled # {}

\* C28: over a well-formed acyclic workflow every pass of the scheduler
\* that begins with a step still unscheduled schedules at least one new
\* step (the one pass over a workflow without steps schedules none); a step
\* list in dependency order is fully scheduled in the first pass; and the
\* loop performs at most max(1, n) passes for n steps.
C28_EveryPassWithStepsSchedules ==
    /\ PassesBounded
    /\ (WellFormed(cwlwf) /\ PassOver /\ Len(cwlwf.steps) > 0) => NewlyScheduled # {}
    /\ (WellFormed(cwlwf) /\ PassOver /\ Len(cwlwf.steps) = 0) =>
           (NewlyScheduled = {} /\ passes = 1)

\* three steps listed against their dependencies took three passes
C28_Witness ==
    /\ pc = "done"
    /\ passes = 3
    /\ Len(cwlwf.steps) = 3
    /\ WellFormed(cwlwf)
    /\ StepSources(cwlwf.steps[1]) = <<StepOut(2)>>
    /\ StepSources(cwlwf.steps[2]) = <<StepOut(3)>>
    /\ StepSources(cwlwf.steps[3]) = <<WfIn>>

\* C3: when a workflow output names an identifier nothing produces, the run does
\* not return an output object, and the error it ends with is graph-unsatisfiable.
C3_UnproducedOutputIsGraphUnsatisfiable ==
    UnproducedOutput(cwlwf) =>
        /\ pc # "done"
        /\ pc = "failed" => raised = "graph-unsatisfiable"

\* C4: when a pass added no promise while a step is still unscheduled, the
\* scheduler's next step is the fatal graph-unsatisfiable error, never another pass.
C4_StalledPassIsFatal ==
    [][Stalled => (pc' = "failed" /\ raised' = "graph-unsatisfiable")]_vars

(***************************************************************************)
(* ResolveIndirect.run, lines 247-253, on the pending input objects a      *)
(* step can have once the engine has replaced its promises.                *)
(*   The first input of the step has one source, or merges up to           *)
(*   MaxSources sources under either link-merge method, with or without a  *)
(*   valueFrom expression; a source names key "x" or "y" of a return value *)
(*   that holds a list, an int, a list of lists, both keys or neither.     *)
(*   A second input, when there is one, has a default or only a valueFrom. *)
(***************************************************************************)
List12 == ListV(<<IntV(1), IntV(2)>>)
ReturnValues ==
    {<<>>,
     "x" :> List12,
     "y" :> IntV(3),
     ("x" :> List12) @@ ("y" :> IntV(3)),
     "x" :> ListV(<<List12, IntV(3)>>),
     ("x" :> ListV(<<>>)) @@ ("y" :> NoneV)}
SourceValues == {[name |-> n, rv |-> r] : n \in {"x", "y"}, r \in ReturnValues}
SourceLists == UNION {[1..k -> SourceValues] : k \in 0..MaxSources}

FirstInputs ==
    {[key |-> "p1", form |-> f, srcs |-> srcs, valueFrom |-> vf] :
        f \in {"MergeInputsNested", "MergeInputsFlattened"},
        srcs \in SourceLists, vf \in BOOLEAN}
    \cup {[key |-> "p1", form |-> "tuple", srcs |-> <<src>>, valueFrom |-> vf] :
            src \in SourceValues, vf \in BOOLEAN}
SecondInputs ==
    {<<>>,
     <<[key |-> "p2", form |-> "tuple",
        srcs |-> <<[name |-> "default", rv |-> "default" :> IntV(0)]>>,
        valueFrom |-> FALSE]>>,
     <<[key |-> "p2", form |-> "tuple",
        srcs |-> <<[name |-> "None", rv |-> "None" :> NoneV]>>,
        valueFrom |-> TRUE]>>}
IsPendingObject(d) ==
    \E first \in FirstInputs, second \in SecondInputs : d = <<first>> \o second

InitResolve ==
    /\ IsPendingObject(cwljob)
    /\ pc = "resolve"
    /\ graph = AddTask([tasks |-> <<>>, children |-> <<>>, followOns |-> <<>>],
                       Task("ResolveIndirect", 0, <<>>, NoTool))
    /\ outobj = <<>>
    /\ raised = ""
    /\ step = Step(0, <<>>, <<>>, NoTool)
    /\ outputs = NoneV
    /\ returned = <<>>
    /\ NoSched
    /\ NoEngine

\* lines 252-253
ResolveIndirect_run ==
    /\ pc = "resolve"
    /\ LET r == resolve_indirect(cwljob)
       IN  IF r.raised = ""
           THEN /\ outobj' = r.value
                /\ pc' = "resolved"
                /\ UNCHANGED raised
           ELSE /\ raised' = r.raised
                /\ pc' = "failed"
                /\ UNCHANGED outobj
    /\ UNCHANGED <<graph, schedVars, jobVars, engineVars>>

\* lines 343 and 826: resolve_indirect applied to a mapping that an earlier
\* resolve_indirect returned (a scatter child's input, the result read by
\* main); outputs keeps the mapping that was passed in
ResolveAgain ==
    /\ pc = "resolved"
    /\ LET r == resolve_indirect_dict(outobj)
       IN  /\ outobj' = r.value
           /\ outputs' = DictV(outobj)
           /\ pc' = "read"
    /\ UNCHANGED <<graph, raised, schedVars, step, cwljob, returned, engineVars>>

NextResolve == ResolveIndirect_run \/ ResolveAgain

SpecResolve == InitResolve /\ [][NextResolve]_vars

(***************************************************************************)
(* Properties of the merge.                                                *)
(***************************************************************************)
\* the resolved value of source n of a merged input
SourceValue(e, n) == e.srcs[n].rv[e.srcs[n].name]
\* the places a source takes in the flattened list, and where they begin
Width(e, n) == IF SourceValue(e, n).t = "list" THEN Len(SourceValue(e, n).v) ELSE 1
RECURSIVE Offset(_, _)
Offset(e, n) == IF n = 1 THEN 0 ELSE Offset(e, n - 1) + Width(e, n - 1)
\* the value the merge itself gave: the context of valueFrom when there is one
MergedValue(e) == IF e.valueFrom THEN outobj[e.key].v[3] ELSE outobj[e.key]

IsNestedOf(m, e) ==
    /\ m.t = "list"
    /\ Len(m.v) = Len(e.srcs)
    /\ \A n \in 1..Len(e.srcs) : m.v[n] = SourceValue(e, n)
IsFlattenedOf(m, e) ==
    /\ m.t = "list"
    /\ Len(m.v) = Offset(e, Len(e.srcs) + 1)
    /\ \A n \in 1..Len(e.srcs) :
          IF SourceValue(e, n).t = "list"
          THEN \A i \in 1..Width(e, n) : m.v[Offset(e, n) + i] = SourceValue(e, n).v[i]
          ELSE m.v[Offset(e, n) + 1] = SourceValue(e, n)

\* C5: a resolved merge_nested input is the list of its sources' values in source
\* order, one entry per source; a resolved merge_flattened input holds, in source
\* order, the elements of every list-valued source (one level) and every other
\* source as one element.
C5_MergeNestedAndFlattened ==
    pc = "resolved" =>
        /\ cwljob[1].form = "MergeInputsNested" => IsNestedOf(MergedValue(cwljob[1]), cwljob[1])
        /\ cwljob[1].form = "MergeInputsFlattened" =>
               IsFlattenedOf(MergedValue(cwljob[1]), cwljob[1])

\* sources [[1,2], 3] have been flattened to [1,2,3]
C5_Witness ==
    /\ pc = "resolved"
    /\ cwljob[1].form = "MergeInputsFlattened"
    /\ ~cwljob[1].valueFrom
    /\ Len(cwljob[1].srcs) = 2
    /\ SourceValue(cwljob[1], 1) = List12
    /\ SourceValue(cwljob[1], 2) = IntV(3)
    /\ outobj["p1"] = ListV(<<IntV(1), IntV(2), IntV(3)>>)

\* Some source of some entry names a key that its producer's result lacks
MissingKey ==
    \E k \in Present(cwljob) : \E n \in 1..Len(cwljob[k].srcs) :
        ~HasKey(cwljob[k].srcs[n])

\* C13: once the pending input object has been resolved, a promise stored
\* directly under an input key has yielded the producer's value under its
\* key, and whenever a promise, stored directly or as a source of a merge,
\* names a key that the producer's result lacks, the resolution has failed
\* with an error and has yielded no value.
C13_MissingKeyFails ==
    /\ (pc # "resolve" /\ MissingKey) => (pc = "failed" /\ raised # "")
    /\ pc \in {"resolved", "read"} =>
          \A k \in Present(cwljob) :
              (cwljob[k].form = "tuple" /\ ~cwljob[k].valueFrom
               /\ HasKey(cwljob[k].srcs[1])) =>
                  outobj[cwljob[k].key] = SourceValue(cwljob[k], 1)

\* C12: resolve_indirect applied to a mapping that resolve_indirect returned
\* (which holds no promise, merge spec or deferred expression) returns a
\* mapping equal to the one passed in, and no step changes the pending
\* input object that was resolved.
C12_ResolveIsIdempotent ==
    /\ [](pc = "read" => outobj = outputs.v)
    /\ [][cwljob' = cwljob]_vars

C12_Witness ==
    /\ pc = "read"
    /\ Len(cwljob) = 2
    /\ cwljob[1].form = "MergeInputsFlattened"
    /\ cwljob[1].valueFrom
    /\ outobj["p2"].t = "eval"
    /\ outobj["p1"].t = "eval"

\* m is the underlying value of entry e: the merge of its sources, or the
\* value its one source holds under its key (None when the key is missing)
IsUnderlyingOf(m, e) ==
    IF e.form = "MergeInputsNested" THEN IsNestedOf(m, e)
    ELSE IF e.form = "MergeInputsFlattened" THEN IsFlattenedOf(m, e)
    ELSE m = IF HasKey(e.srcs[1]) THEN SourceValue(e, 1) ELSE NoneV
\* the entries of a pending input object in the opposite order
Reversed(d) == [k \in 1..Len(d) |-> d[Len(d) + 1 - k]]
\* the mapping of underlying values in the resolved object: an expression's
\* result stands for its context
UnderlyingOf(key) == IF EntryOf(cwljob, key).valueFrom THEN outobj[key].v[3] ELSE outobj[key]

\* C24: in the resolved object an input that carries valueFrom holds the
\* result of its expression evaluated on one mapping, the same for every
\* expression, that holds under every key the underlying value of that key
\* (the merge, the promised value or the default, never the result of an
\* expression), with the underlying value of its own key as context; an
\* input without valueFrom holds its underlying value; and the object
\* resolved with its keys in the opposite order gives the same result.
C24_TwoPhases ==
    pc = "resolved" =>
        /\ DOMAIN outobj = KeysOf(cwljob)
        /\ \A k \in Present(cwljob) :
              LET e == cwljob[k]
              IN  /\ IsUnderlyingOf(UnderlyingOf(e.key), e)
                  /\ e.valueFrom =>
                        /\ outobj[e.key].t = "eval"
                        /\ outobj[e.key].v[1] = e.key
                        /\ outobj[e.key].v[2] = [key \in KeysOf(cwljob) |-> UnderlyingOf(key)]
                  /\ ~e.valueFrom => outobj[e.key].t # "eval"
        /\ resolve_indirect(Reversed(cwljob)) = Returns(outobj)

\* a flattened merge with valueFrom beside an input that has only valueFrom
C24_Witness ==
    /\ pc = "resolved"
    /\ Len(cwljob) = 2
    /\ cwljob[1].form = "MergeInputsFlattened"
    /\ Len(cwljob[1].srcs) = 2
    /\ cwljob[1].valueFrom
    /\ cwljob[2].valueFrom
    /\ outobj["p1"].v[2]["p2"] = NoneV
    /\ outobj["p2"].v[2]["p1"] = ListV(<<IntV(1), IntV(2), IntV(3)>>)

(***************************************************************************)
(* A scattered step: CWLScatter.run, the completion of the children it     *)
(* created, and CWLGather.run.                                             *)
(*   The step scatters over its first one to MaxScatterKeys inputs, whose *)
(*   lists hold zero to MaxLen elements each (element i of key k is the    *)
(*   int 10k+i); a last input "q" is not scattered.  scatterMethod is      *)
(*   absent, one of the three methods, or some other word; no input, the   *)
(*   first scattered input or "q" carries valueFrom; the tool run is of    *)
(*   every class makeJob tells apart.                                      *)
(***************************************************************************)
ScatterKey(k) == IF k = 1 THEN "p1" ELSE IF k = 2 THEN "p2" ELSE IF k = 3 THEN "p3" ELSE "p4"
Element(k, i) == IntV(10 * k + i)
ScatterMethods == {"", "dotproduct", "nested_crossproduct", "flat_crossproduct", "zip"}
ScatterTools == {CommandLineTool(FALSE), CommandLineTool(TRUE), InnerWorkflow}

ScatterPort(name, vf) ==
    [Port(1, name, <<WfIn>>) EXCEPT !.hasValueFrom = (name = vf)]
ScatterStep(nk, method, vf, tool) ==
    [Step(1, [k \in 1..(nk + 1) |-> ScatterPort(IF k <= nk THEN ScatterKey(k) ELSE "q", vf)],
          [k \in 1..nk |-> <<1, ScatterKey(k)>>], tool)
        EXCEPT !.scatterMethod = method]
\* the IndirectDict of the step, every promise replaced by its job's return value
ScatterInput(lens) ==
    [k \in 1..(Len(lens) + 1) |->
        IF k <= Len(lens)
        THEN [key |-> ScatterKey(k), form |-> "tuple",
              srcs |-> <<[name |-> "in",
                          rv |-> "in" :> ListV([i \in 1..lens[k] |-> Element(k, i)])]>>,
              valueFrom |-> FALSE]
        ELSE [key |-> "q", form |-> "tuple",
              srcs |-> <<[name |-> "in", rv |-> "in" :> IntV(0)]>>,
              valueFrom |-> FALSE]]
LengthLists == UNION {[1..nk -> 0..MaxLen] : nk \in 1..MaxScatterKeys}
\* lines 629-640: the entries of d are deferred expressions where the
\* scheduler wrapped the input of the step
AsScheduled(st, d) ==
    LET jobobj == JobObj(st, SeedPromises(RootJob, <<WfIn>>))
    IN  [k \in 1..Len(d) |-> [d[k] EXCEPT !.valueFrom = jobobj[k].valueFrom]]

ScatterJob == 1
GatherJob == 2

InitScatter ==
    /\ \E lens \in LengthLists, method \in ScatterMethods,
          vf \in {"", "p1", "q"}, tool \in ScatterTools :
          /\ step = ScatterStep(Len(lens), method, vf, tool)
          /\ cwljob = AsScheduled(step, ScatterInput(lens))
    /\ pc = "scatter"
    /\ graph = StepJobs([tasks |-> <<>>, children |-> <<>>, followOns |-> <<>>],
                        step, cwljob).g
    /\ outputs = NoneV
    /\ returned = <<>>
    /\ outobj = <<>>
    /\ raised = ""
    /\ NoSched
    /\ NoEngine

\* lines 442-488
CWLScatter_run_ ==
    /\ pc = "scatter"
    /\ LET st == CWLScatter_run(graph, ScatterJob, step, cwljob)
       IN  IF st.raised = ""
           THEN /\ graph' = st.g
                /\ outputs' = ListV(st.outputs)
                /\ pc' = "scattered"
                /\ UNCHANGED raised
           ELSE /\ raised' = st.raised
                /\ pc' = "failed"
                /\ UNCHANGED <<graph, outputs>>
    /\ UNCHANGED <<outobj, step, cwljob, returned, schedVars, engineVars>>

\* the jobs whose return value the scatter's outputs hold a promise of
RECURSIVE PromisesIn(_)
PromisesIn(obj) ==
    IF obj.t = "promise" THEN {obj.v}
    ELSE IF isList(obj) THEN UNION {PromisesIn(obj.v[n]) : n \in 1..Len(obj.v)}
    ELSE {}

\* CWLJob.run, lines 343-380, and ResolveIndirect.run: the output object a
\* finished job returned; it may lack an output key, or hold a list under it
OutputObject(j, kind) ==
    IF kind = "all" THEN DictV("out" :> IntV(j))
    ELSE IF kind = "lists" THEN DictV("out" :> ListV(<<IntV(j)>>))
    ELSE IF j % 2 = 0 THEN DictV("out" :> IntV(j))
    ELSE DictV("other" :> IntV(j))

\* every job below the scatter has finished; the engine may start the gather
ChildrenFinish ==
    /\ pc = "scattered"
    /\ \E kind \in {"all", "lists", "some"} :
          returned' = [j \in PromisesIn(outputs) |-> OutputObject(j, kind)]
    /\ pc' = "gather"
    /\ UNCHANGED <<graph, outobj, raised, step, cwljob, outputs, schedVars, engineVars>>

\* lines 516-528, on the outputs with every promise replaced
CWLGather_run_ ==
    /\ pc = "gather"
    /\ outobj' = CWLGather_run(step, Fulfil(outputs, returned))
    /\ pc' = "gathered"
    /\ UNCHANGED <<graph, raised, step, cwljob, outputs, returned, schedVars, engineVars>>

NextScatter == CWLScatter_run_ \/ ChildrenFinish \/ CWLGather_run_

SpecScatter == InitScatter /\ [][NextScatter]_vars

(***************************************************************************)
(* Properties of scatter and gather.                                       *)
(***************************************************************************)
NumKeys == Len(step.scatter)
KeyName(k) == Shortname(step.scatter[k])
\* the resolved value of input k of the scatter job, and its elements
InputValue(k) == cwljob[k].srcs[1].rv[cwljob[k].srcs[1].name]
Lengths == [k \in 1..NumKeys |-> Len(InputValue(k).v)]
ElementOf(k, i) == InputValue(k).v[i]
\* the children of job j, in the order they were added
ChildrenOf(g, j) ==
    LET edges == SelectSeq(g.children, LAMBDA e : e[1] = j)
    IN  [n \in 1..Len(edges) |-> edges[n][2]]
\* the job whose return value is the result of child c
ResultJobOf(g, c) ==
    IF \E e \in RangeOf(g.followOns) : e[1] = c
    THEN (CHOOSE e \in RangeOf(g.followOns) : e[1] = c)[2]
    ELSE c
InputOf(c) == graph.tasks[c].cwljob
\* the input object of child i of a dotproduct before any valueFrom is applied
Paired(i) ==
    [key \in {cwljob[k].key : k \in 1..Len(cwljob)} |->
        LET k == CHOOSE m \in 1..Len(cwljob) : cwljob[m].key = key
        IN  IF k <= NumKeys THEN ElementOf(k, i) ELSE InputValue(k)]
\* what a child was given for a key: the context of valueFrom when it has one
Received(input, key) == IF input[key].t = "eval" THEN input[key].v[3] ELSE input[key]

ScatterRan == pc \in {"scattered", "gather", "gathered"}
IsDotproduct == NumKeys = 1 \/ step.scatterMethod = "dotproduct"
IsFlat == NumKeys > 1 /\ step.scatterMethod = "flat_crossproduct"
IsNested == NumKeys > 1 /\ step.scatterMethod = "nested_crossproduct"
EqualLengths == \A k \in 1..NumKeys : Lengths[k] = Lengths[1]

RECURSIVE Product(_)
Product(lens) == IF lens = <<>> THEN 1 ELSE Head(lens) * Product(Tail(lens))
\* the index tuples of the combinations of lists of these lengths
RECURSIVE Combos(_)
Combos(lens) ==
    IF lens = <<>> THEN {<<>>}
    ELSE {<<i>> \o rest : i \in 1..Head(lens), rest \in Combos(Tail(lens))}
\* the row-major rank, from 0, of an index tuple
RECURSIVE Rank(_, _)
Rank(idx, lens) ==
    IF idx = <<>> THEN 0
    ELSE Rank(SubSeq(idx, 1, Len(idx) - 1), lens) * lens[Len(idx)] + idx[Len(idx)] - 1
\* the value at an index path of a nested list
Nothing == [t |-> "nothing", v |-> <<>>]
RECURSIVE At(_, _)
At(obj, idx) ==
    IF idx = <<>> THEN obj
    ELSE IF obj.t = "list" /\ Head(idx) \in 1..Len(obj.v)
    THEN At(obj.v[Head(idx)], Tail(idx))
    ELSE Nothing
\* the index paths of a nested list, to every list and every leaf
RECURSIVE Paths(_)
Paths(obj) ==
    IF obj.t = "list"
    THEN {<<>>} \cup UNION {{<<n>> \o p : p \in Paths(obj.v[n])} : n \in 1..Len(obj.v)}
    ELSE {<<>>}

\* the statement of C6 as written: child i holds element i of every scattered key
C6_ChildHoldsElement ==
    (ScatterRan /\ IsDotproduct /\ EqualLengths) =>
        LET ch == ChildrenOf(graph, ScatterJob)
        IN  /\ Len(ch) = Lengths[1]
            /\ \A i \in 1..Len(ch) : \A k \in 1..NumKeys :
                  InputOf(ch[i])[KeyName(k)] = ElementOf(k, i)
            /\ outputs = ListV([i \in 1..Len(ch) |-> PromiseV(ResultJobOf(graph, ch[i]))])

\* C6: a dotproduct scatter over lists of one length N creates N children in index
\* order; child i holds, for every scattered key, element i of the key's list, or,
\* when the key carries valueFrom, the value of that expression evaluated on the
\* paired input object with element i as its context; the result is the flat list
\* of the N children's result promises in that order.
C6_DotproductPairsElements ==
    (ScatterRan /\ IsDotproduct /\ EqualLengths) =>
        LET ch == ChildrenOf(graph, ScatterJob)
        IN  /\ Len(ch) = Lengths[1]
            /\ \A i \in 1..Len(ch) : \A k \in 1..NumKeys :
                  InputOf(ch[i])[KeyName(k)] =
                      IF step.inputs[k].hasValueFrom
                      THEN do_eval(KeyName(k), Paired(i), ElementOf(k, i))
                      ELSE ElementOf(k, i)
            /\ outputs = ListV([i \in 1..Len(ch) |-> PromiseV(ResultJobOf(graph, ch[i]))])

\* a dotproduct over two lists of MaxLen elements whose first key carries valueFrom
C6_Witness ==
    /\ ScatterRan
    /\ step.scatterMethod = "dotproduct"
    /\ NumKeys = 2
    /\ Lengths = <<MaxLen, MaxLen>>
    /\ step.inputs[1].hasValueFrom
    /\ Len(ChildrenOf(graph, ScatterJob)) = MaxLen

\* C7: a dotproduct scatter over two or more keys whose lists differ in length ends
\* with a fatal error (whatever exception reports the mismatch) and returns no
\* result, whichever key is the shorter one.
C7_MismatchIsFatal ==
    (pc # "scatter" /\ IsDotproduct /\ NumKeys > 1 /\ ~EqualLengths) =>
        (pc = "failed" /\ raised # "" /\ outputs = NoneV)

\* C17: once a scatter over more than one key whose scatterMethod is absent
\* or is none of dotproduct, nested_crossproduct and flat_crossproduct has
\* run, it has failed with a validation error, the scatter job has no child,
\* the graph holds no job besides the scatter and its gather, and no list of
\* results was returned.
C17_UnknownMethodIsFatal ==
    (pc # "scatter" /\ NumKeys > 1
     /\ step.scatterMethod \notin {"dotproduct", "nested_crossproduct", "flat_crossproduct"}) =>
        /\ pc = "failed"
        /\ raised = "ValidationException"
        /\ ChildrenOf(graph, ScatterJob) = <<>>
        /\ Len(graph.tasks) = GatherJob
        /\ outputs = NoneV

C17_Witness ==
    /\ pc = "failed"
    /\ raised = "ValidationException"
    /\ NumKeys = 2
    /\ step.scatterMethod = ""
    /\ \A k \in 1..NumKeys : Lengths[k] = 2

\* the scattered keys, and the elements of the list of a scattered key
ScatteredKeys == {KeyName(k) : k \in 1..NumKeys}
ElementsOf(key) ==
    LET k == CHOOSE m \in 1..Len(cwljob) : cwljob[m].key = key
    IN  {ElementOf(k, i) : i \in 1..Len(InputValue(k).v)}
\* the input object of a child before postScatterEval: the values its keys
\* were given
Snapshot(input) == [key \in DOMAIN input |-> Received(input, key)]

\* C25: the pending input of a scatter job holds no deferred expression;
\* the input object of every child holds, under a key that carries
\* valueFrom, the result of that expression evaluated once, on the child's
\* input object after substitution, with the value of the key after
\* substitution as context (one element, not the list, for a scattered
\* key), and under every other key a plain value; and resolving the child's
\* input object again, as the child's run does, evaluates nothing.
C25_ValueFromOncePerChild ==
    /\ \A k \in 1..Len(cwljob) : ~cwljob[k].valueFrom
    /\ ScatterRan =>
          LET ch == ChildrenOf(graph, ScatterJob)
          IN  \A n \in 1..Len(ch) :
                 LET io == InputOf(ch[n])
                 IN  /\ \A key \in DOMAIN io :
                           /\ io[key].t = "eval" <=> key \in valueFrom(step)
                           /\ io[key].t = "eval" =>
                                 /\ io[key].v[1] = key
                                 /\ io[key].v[2] = Snapshot(io)
                           /\ Received(io, key).t = "int"
                           /\ key \in ScatteredKeys => Received(io, key) \in ElementsOf(key)
                     /\ resolve_indirect_dict(io) = Returns(io)

\* a flat crossproduct of two lists of two, the first key with valueFrom
C25_Witness ==
    /\ ScatterRan
    /\ IsFlat
    /\ Lengths = <<2, 2>>
    /\ step.inputs[1].hasValueFrom
    /\ Len(ChildrenOf(graph, ScatterJob)) = 4
    /\ InputOf(ChildrenOf(graph, ScatterJob)[3])["p1"] =
           do_eval("p1", ("p1" :> Element(1, 2)) @@ ("p2" :> Element(2, 1)) @@ ("q" :> IntV(0)),
                   Element(1, 2))

\* C27: a scatter over one key, whatever scatterMethod the step declares
\* (none, a known one or an unknown one), ends without an error, has made
\* one child per element of the key's list, none for an empty list, child i
\* holding element i, and has returned the flat list of the children's
\* result promises in that order.
C27_OneKeyIsDotproduct ==
    (pc # "scatter" /\ NumKeys = 1) =>
        LET ch == ChildrenOf(graph, ScatterJob)
        IN  /\ ScatterRan
            /\ raised = ""
            /\ Len(ch) = Lengths[1]
            /\ \A i \in 1..Len(ch) : Received(InputOf(ch[i]), KeyName(1)) = ElementOf(1, i)
            /\ outputs = ListV([i \in 1..Len(ch) |-> PromiseV(ResultJobOf(graph, ch[i]))])

\* one key, an unknown method, three elements
C27_Witness ==
    /\ pc = "scattered"
    /\ NumKeys = 1
    /\ step.scatterMethod = "zip"
    /\ Lengths = <<MaxLen>>
    /\ Len(ChildrenOf(graph, ScatterJob)) = MaxLen
    /\ Len(outputs.v) = MaxLen

\* the resolved value of the input with this key
ValueOfKey(key) == InputValue(CHOOSE m \in 1..Len(cwljob) : cwljob[m].key = key)

\* C29: no step changes the input object or the step of the scatter job;
\* the input object of every child has the keys of the scatter job's
\* resolved input, and under every key that is not scattered it holds the
\* value of the resolved input, as it is or, when the key carries valueFrom,
\* as the context of the expression; so the children differ from the
\* resolved input, and from each other, only at the scattered keys and the
\* keys with valueFrom, under every scatter method.
C29_ChildrenKeepOtherKeys ==
    /\ [][cwljob' = cwljob /\ step' = step]_vars
    /\ [](ScatterRan =>
             LET ch == ChildrenOf(graph, ScatterJob)
             IN  \A n \in 1..Len(ch) :
                    LET io == InputOf(ch[n])
                    IN  /\ DOMAIN io = KeysOf(cwljob)
                        /\ \A key \in DOMAIN io \ ScatteredKeys :
                              /\ Received(io, key) = ValueOfKey(key)
                              /\ key \notin valueFrom(step) => io[key] = ValueOfKey(key)
                        /\ \A m \in 1..Len(ch) :
                              \A key \in DOMAIN io \ (ScatteredKeys \cup valueFrom(step)) :
                                  InputOf(ch[m])[key] = io[key])

\* a nested crossproduct of three and two elements has made six children
\* that hold the same value under the key that is not scattered
C29_Witness ==
    /\ ScatterRan
    /\ IsNested
    /\ Lengths = <<3, 2>>
    /\ step.inputs[1].hasValueFrom
    /\ Len(ChildrenOf(graph, ScatterJob)) = 6
    /\ \A n \in 1..6 : InputOf(ChildrenOf(graph, ScatterJob)[n])["q"] = IntV(0)

\* C8: a flat_crossproduct scatter creates one child per combination of elements,
\* n1*...*nk in all, and returns their result promises as one flat list in
\* row-major order, the first scattered key varying slowest.
C8_FlatCrossproductRowMajor ==
    (ScatterRan /\ IsFlat) =>
        LET ch == ChildrenOf(graph, ScatterJob)
        IN  /\ Len(ch) = Product(Lengths)
            /\ outputs.t = "list"
            /\ Len(outputs.v) = Product(Lengths)
            /\ \A idx \in Combos(Lengths) :
                  LET n == Rank(idx, Lengths) + 1
                  IN  /\ outputs.v[n] = PromiseV(ResultJobOf(graph, ch[n]))
                      /\ \A k \in 1..NumKeys :
                            Received(InputOf(ch[n]), KeyName(k)) = ElementOf(k, idx[k])

\* lists of 2 and 3 elements have given 6 children
C8_Witness ==
    /\ ScatterRan
    /\ IsFlat
    /\ Lengths = <<2, 3>>
    /\ Len(outputs.v) = 6
    /\ Received(InputOf(ChildrenOf(graph, ScatterJob)[4]), "p1") = Element(1, 2)
    /\ Received(InputOf(ChildrenOf(graph, ScatterJob)[4]), "p2") = Element(2, 1)

\* C9: a nested_crossproduct scatter over k keys creates one child per combination
\* and returns a k-level nested list: n1 entries, each a list of n2 entries, and so
\* on; the promise at [i1]...[ik] is of the child that received element i1 of key 1,
\* ..., ik of key k.
C9_NestedCrossproductShape ==
    (ScatterRan /\ IsNested) =>
        LET ch == ChildrenOf(graph, ScatterJob)
        IN  /\ Len(ch) = Product(Lengths)
            /\ \A j \in 0..(NumKeys - 1) : \A prefix \in Combos(SubSeq(Lengths, 1, j)) :
                  /\ At(outputs, prefix).t = "list"
                  /\ Len(At(outputs, prefix).v) = Lengths[j + 1]
            /\ \A idx \in Combos(Lengths) : \E n \in 1..Len(ch) :
                  /\ At(outputs, idx) = PromiseV(ResultJobOf(graph, ch[n]))
                  /\ \A k \in 1..NumKeys :
                        Received(InputOf(ch[n]), KeyName(k)) = ElementOf(k, idx[k])

\* lists of 2 and 3 elements have given 2 groups of 3
C9_Witness ==
    /\ ScatterRan
    /\ IsNested
    /\ Lengths = <<2, 3>>
    /\ Len(outputs.v) = 2
    /\ Len(outputs.v[1].v) = 3
    /\ Len(outputs.v[2].v) = 3
    /\ Len(ChildrenOf(graph, ScatterJob)) = 6

OutputKeys == {Shortname(o) : o \in RangeOf(step.outputs)}
\* the value of the job a promise was of, for an output key
ValueFor(promise, key) ==
    IF key \in DOMAIN returned[promise.v].v THEN returned[promise.v].v[key] ELSE NoneV

\* C10: under every declared output key the gather result has the nesting shape of
\* the list the scatter returned, with each child's promise replaced by that
\* child's value for the key; an empty scatter result gathers to an empty list.
C10_GatherKeepsShape ==
    pc = "gathered" =>
        /\ DOMAIN outobj = OutputKeys
        /\ \A key \in OutputKeys : \A p \in Paths(outputs) :
              IF At(outputs, p).t = "list"
              THEN /\ At(outobj[key], p).t = "list"
                   /\ Len(At(outobj[key], p).v) = Len(At(outputs, p).v)
              ELSE At(outobj[key], p) = ValueFor(At(outputs, p), key)

\* 2 groups of 3 have been gathered, and so has a scatter with an empty group
C10_Witness ==
    /\ pc = "gathered"
    /\ IsNested
    /\ Lengths = <<2, 3>>
    /\ Len(outobj["out"].v) = 2
    /\ Len(outobj["out"].v[2].v) = 3
    /\ outobj["out"].v[2].v[3] = ValueFor(outputs.v[2].v[3], "out")

(***************************************************************************)
(* The engine running the jobs of a workflow.  The run of a job is one     *)
(* step: it resolves its input object, does its work, adds the jobs it     *)
(* creates and returns.  A child is started only when the runs of all its  *)
(* parents have finished; a follow-on only when its predecessor and every  *)
(* descendant of that predecessor have finished; other jobs interleave.    *)
(*   finished: the jobs whose run has returned;  promised[j]: the jobs     *)
(*   whose return value the return value of j holds a promise of;          *)
(*   early: <<reader, j>> when reader resolved a promise of j while a job  *)
(*   that produces part of j's value had not finished.                     *)
(* The documents are the chains of up to MaxSteps steps whose tools are    *)
(* a plain tool, a tool with an expression in its resource requirement, a  *)
(* nested workflow, or a plain tool under scatter.                         *)
(***************************************************************************)
StepKinds == {"tool", "dynamic", "workflow", "scatter"}
ExecStep(i, kind) ==
    Step(i, <<Port(i, "p1", <<IF i = 1 THEN WfIn ELSE StepOut(i - 1)>>)>>,
         IF kind = "scatter" THEN << <<i, "p1">> >> ELSE <<>>,
         IF kind = "dynamic" THEN CommandLineTool(TRUE)
         ELSE IF kind = "workflow" THEN InnerWorkflow
         ELSE CommandLineTool(FALSE))
ExecDocument(kinds) ==
    Workflow(<<WfIn>>, [i \in 1..Len(kinds) |-> ExecStep(i, kinds[i])],
             <<Output(StepOut(Len(kinds)), FALSE)>>)
KindLists == UNION {[1..n -> StepKinds] : n \in 1..MaxSteps}
\* two steps and two workflow outputs: of the last step and of the first
TwoOutputs(kinds) ==
    [ExecDocument(kinds) EXCEPT
        !.outputs = @ \o <<[Output(StepOut(1), FALSE) EXCEPT !.id = <<0, "first">>]>>]

\* a scattered step that runs the tool, and a plain step that consumes its output
ScatterThen(tool) ==
    Workflow(<<WfIn>>,
             <<[ExecStep(1, "scatter") EXCEPT !.embedded_tool = tool], ExecStep(2, "tool")>>,
             <<Output(StepOut(2), FALSE)>>)

\* lines 595-667: the for loop of one pass, from step i on
RECURSIVE ForSteps(_, _, _, _)
ForSteps(s, self, doc, i) ==
    IF s.raised # "" \/ i > Len(doc.steps) THEN s
    ELSE ForSteps(VisitStep(s, self, doc.steps[i]), self, doc, i + 1)
\* lines 587-673: the while loop, for at most "left" passes
RECURSIVE WhileLoop(_, _, _, _)
WhileLoop(s, self, doc, left) ==
    IF s.raised # "" \/ s.alloutputs_fufilled \/ left = 0 THEN s
    ELSE WhileLoop(OutputsCheck(ForSteps([s EXCEPT !.alloutputs_fufilled = TRUE],
                                         self, doc, 1), doc.outputs),
                   self, doc, left - 1)
\* lines 570-679: the whole run of a workflow job
CWLWorkflow_run(g, self, doc) ==
    WhileLoop([promises |-> SeedPromises(self, doc.inputs), jobs |-> <<>>,
               alloutputs_fufilled |-> FALSE, g |-> g, raised |-> ""],
              self, doc, MaxPasses)

\* the engine is running the jobs of the job store (toil.start or toil.restart)
Running == pc \in {"exec", "restart"}

\* the engine may start job t
Ready(t) ==
    /\ Running
    /\ t \notin finished
    /\ t \notin DOMAIN failed
    /\ t = RootJob \/ Parents(graph, t) \cup Predecessors(graph, t) # {}
    /\ Parents(graph, t) \subseteq finished
    /\ \A p \in Predecessors(graph, t) :
          p \in finished /\ Descendants(graph, p) \subseteq finished

\* the jobs that produce the value of a promise of j and have not finished
RECURSIVE Unfinished(_)
Unfinished(j) ==
    IF j \notin finished THEN {j} ELSE UNION {Unfinished(k) : k \in promised[j]}
\* resolve_indirect(self.cwljob) by job t: the promises that are resolved early
ResolvedEarly(t) ==
    {<<t, j>> : j \in {k \in Reads(graph.tasks[t].cwljob) : Unfinished(k) # {}}}

\* what a promise of a job that has returned nothing is replaced by
Unavailable == [t |-> "unavailable", v |-> <<>>]
\* the return value of CWLWorkflow.run, line 679
IndirectDictV(entries) == [t |-> "IndirectDict", v |-> entries]
\* a value as a job reads it: every promise in it replaced by the return value
\* of its job, and so on through the promises that value holds
RECURSIVE Load(_, _)
Load(obj, rets) ==
    IF obj.t = "promise"
    THEN IF obj.v \in DOMAIN rets THEN Load(rets[obj.v], rets) ELSE Unavailable
    ELSE IF isList(obj) THEN ListV([n \in 1..Len(obj.v) |-> Load(obj.v[n], rets)])
    ELSE obj

\* the pending input object d as its job reads it: every handle replaced by
\* the mapping it stands for (a job's return value, the resolved input of a
\* workflow job, a literal)
RECURSIVE HandleValue(_, _, _)
RECURSIVE Materialize(_, _, _)
RECURSIVE ResolvedInputOf(_, _, _)
HandleValue(g, rets, h) ==
    IF h.kind = "rv"
    THEN LET val == Load(PromiseV(h.j), rets)
         IN  IF isDict(val) THEN val.v ELSE <<>>
    ELSE IF h.kind = "cwljob" THEN ResolvedInputOf(g, rets, h.j)
    ELSE h.kind :> (IF h.kind = "None" THEN NoneV ELSE IntV(0))
Materialize(g, rets, d) ==
    [k \in 1..Len(d) |->
        [key |-> d[k].key, form |-> d[k].form, valueFrom |-> d[k].valueFrom,
         srcs |-> [n \in 1..Len(d[k].srcs) |->
                     [name |-> d[k].srcs[n].name,
                      rv |-> HandleValue(g, rets, d[k].srcs[n].rv)]]]]
\* lines 571 and 584: the resolved input a workflow job hands to SelfJob
ResolvedInputOf(g, rets, j) ==
    LET r == resolve_indirect(Materialize(g, rets, g.tasks[j].cwljob))
    IN  IF r.raised = "" THEN r.value ELSE <<>>

\* lines 292, 343, 443, 571: resolve_indirect(self.cwljob) by job t
ResolveInput(t) == resolve_indirect(Materialize(graph, returned, graph.tasks[t].cwljob))

\* the documents that are one tool: every ResourceRequirement that sets at
\* most MaxReqFields fields
MaxReqFields == 2
ReqValues == {Number, String(FALSE, FALSE), String(TRUE, FALSE), String(FALSE, TRUE)}
ResourceReqs ==
    UNION {[F -> ReqValues] : F \in {X \in SUBSET ResourceFields : Cardinality(X) <= MaxReqFields}}

InitExec ==
    /\ \/ \E kinds \in KindLists : cwlwf = ExecDocument(kinds)
       \/ \E kinds \in [1..2 -> StepKinds] : cwlwf = TwoOutputs(kinds)
       \/ \E req \in ResourceReqs : cwlwf = ToolWith(req)
       \/ \E tool \in ScatterTools : cwlwf = ScatterThen(tool)
    /\ env \in {"ok", "broken"}
    /\ pc = "exec"
    /\ graph = RootGraph(cwlwf)
    /\ finished = {}
    /\ failed = <<>>
    /\ promised = <<>>
    /\ early = {}
    /\ outobj = <<>>
    /\ raised = ""
    /\ stepIdx = 0
    /\ promises = <<>>
    /\ jobs = <<>>
    /\ alloutputs_fufilled = FALSE
    /\ passes = 0
    /\ passStart = {}
    /\ NoJob

\* job t has run: it resolved its input, added the jobs of g and returned a
\* value that holds promises of the jobs in ps
Ran(t, g, ps, value) ==
    /\ early' = early \cup ResolvedEarly(t)
    /\ finished' = finished \cup {t}
    /\ promised' = (t :> ps) @@ promised
    /\ returned' = (t :> value) @@ returned
    /\ graph' = g
    /\ UNCHANGED <<pc, outobj, raised, failed, env, schedVars, step, cwljob, outputs>>

\* the run of job t ended with an exception: the job has failed
Failed(t, exception) ==
    /\ failed' = (t :> exception) @@ failed
    /\ early' = early \cup ResolvedEarly(t)
    /\ UNCHANGED <<pc, graph, outobj, raised, finished, promised, env,
                   schedVars, jobVars>>

IsKind(t, kind) == graph.tasks[t].kind = kind

\* line 361: the status single_job_executor returns; a tool whose program is
\* missing from PATH does not succeed
Statuses == IF env = "ok" THEN {"success"} ELSE {"success", "permanentFail"}

\* CWLJob.run, lines 343-380: the tool runs, its output object is returned
RunCWLJob ==
    \E t \in 1..Len(graph.tasks) :
    /\ IsKind(t, "CWLJob")
    /\ Ready(t)
    /\ IF ResolveInput(t).raised # "" THEN Failed(t, ResolveInput(t).raised)
       ELSE \E status \in Statuses :
               IF status # "success" THEN Failed(t, "WorkflowException")
               ELSE Ran(t, graph, {}, DictV("out" :> IntV(t)))

\* CWLJobWrapper.run, lines 291-306
RunCWLJobWrapper ==
    \E t \in 1..Len(graph.tasks) :
    /\ IsKind(t, "CWLJobWrapper")
    /\ Ready(t)
    /\ LET g == AddTask(graph, Task("CWLJob", graph.tasks[t].step, graph.tasks[t].cwljob,
                                    graph.tasks[t].tool))
           realjob == LastTask(g)
       IN  IF ResolveInput(t).raised # "" THEN Failed(t, ResolveInput(t).raised)
           ELSE Ran(t, addChild(g, t, realjob), {realjob}, PromiseV(realjob))

\* CWLWorkflow.run, lines 570-679
RunCWLWorkflow ==
    \E t \in 1..Len(graph.tasks) :
    /\ IsKind(t, "CWLWorkflow")
    /\ Ready(t)
    /\ LET s == CWLWorkflow_run(graph, t, graph.tasks[t].tool)
           outs == graph.tasks[t].tool.outputs
       IN  IF ResolveInput(t).raised # "" THEN Failed(t, ResolveInput(t).raised)
           ELSE IF s.raised # "" THEN Failed(t, s.raised)
           ELSE /\ s.alloutputs_fufilled
                /\ IF ~OutputsKnown(outs, s.promises) THEN Failed(t, "KeyError")
                   ELSE Ran(t, s.g, Reads(OutObj(outs, s.promises)),
                            IndirectDictV(OutObj(outs, s.promises)))

\* ResolveIndirect.run, lines 252-253, on the return value of its workflow job
RunResolveIndirect ==
    \E t \in 1..Len(graph.tasks) :
    /\ IsKind(t, "ResolveIndirect")
    /\ Ready(t)
    /\ LET value == Load(PromiseV(graph.tasks[t].cwljob[1].srcs[1].rv.j), returned)
           r == IF value.t = "IndirectDict"
                THEN resolve_indirect(Materialize(graph, returned, value.v))
                ELSE Raises("TypeError")
       IN  IF r.raised # "" THEN Failed(t, r.raised)
           ELSE Ran(t, graph, {}, DictV(r.value))

\* CWLScatter.run, lines 442-488, on a list of n elements
RunCWLScatter ==
    \E t \in 1..Len(graph.tasks) :
    /\ IsKind(t, "CWLScatter")
    /\ Ready(t)
    /\ \E n \in 0..MaxChildren :
          LET scattered == [id |-> graph.tasks[t].step, embedded_tool |-> graph.tasks[t].tool]
              st == ScatterLoop([g |-> graph, outputs |-> <<>>, raised |-> ""], t, scattered, n)
          IN  IF ResolveInput(t).raised # "" THEN Failed(t, ResolveInput(t).raised)
              ELSE Ran(t, st.g, {st.outputs[i].v : i \in 1..Len(st.outputs)},
                       ListV(st.outputs))

\* CWLGather.run, lines 516-528, on the return value of its scatter job
RunCWLGather ==
    \E t \in 1..Len(graph.tasks) :
    /\ IsKind(t, "CWLGather")
    /\ Ready(t)
    /\ LET gathered == [outputs |-> <<StepOut(graph.tasks[t].step)>>]
           value == Load(PromiseV(graph.tasks[t].cwljob[1].srcs[1].rv.j), returned)
       IN  Ran(t, graph, {}, DictV(CWLGather_run(gathered, value)))

\* the engine loads a job whose input holds a promise that is not fulfilled:
\* reading the promise fails and the job fails before its run begins
FailOnLoad ==
    \E t \in 1..Len(graph.tasks) :
    /\ Ready(t)
    /\ ResolvedEarly(t) # {}
    /\ Failed(t, "PromiseNotFulfilled")

\* toil.start or toil.restart raises FailedJobsException (lines 752, 824):
\* a job has failed and no job is left to run
ToilFails ==
    /\ Running
    /\ failed # <<>>
    /\ \A t \in 1..Len(graph.tasks) : ~Ready(t)
    /\ pc' = "failedRun"
    /\ raised' = "FailedJobsException"
    /\ UNCHANGED <<graph, outobj, schedVars, jobVars, engineVars>>

\* main, lines 824-832: every job has finished, toil returns the return value
\* of the root job and removes the job store; main resolves and writes it
MainReturns ==
    /\ Running
    /\ finished = 1..Len(graph.tasks)
    /\ LET value == Load(PromiseV(RootJob), returned)
           r == IF value.t = "IndirectDict"
                THEN resolve_indirect(Materialize(graph, returned, value.v))
                ELSE IF isDict(value) THEN resolve_indirect_dict(value.v)
                ELSE Raises("TypeError")
       IN  IF r.raised = ""
           THEN /\ outobj' = r.value
                /\ pc' = "done"
                /\ UNCHANGED raised
           ELSE /\ raised' = r.raised
                /\ pc' = "crashed"
                /\ UNCHANGED outobj
    /\ UNCHANGED <<graph, schedVars, jobVars, engineVars>>

\* main with --restart, lines 750-752, after a run that ended with failed
\* jobs: the engine takes up the jobs of the job store, the failed ones anew
MainRestart ==
    /\ pc = "failedRun"
    /\ pc' = "restart"
    /\ failed' = <<>>
    /\ raised' = ""
    /\ UNCHANGED <<graph, outobj, finished, promised, early, env, schedVars, jobVars>>

\* main with --restart after a run that succeeded: the job store is gone
MainRestartNoJobStore ==
    /\ pc = "done"
    /\ raised' = "NoSuchJobStoreException"
    /\ UNCHANGED <<pc, graph, outobj, schedVars, jobVars, engineVars>>

\* cwlTest.py, line 81: the missing program is put back on PATH between runs
FixPath ==
    /\ pc = "failedRun"
    /\ env = "broken"
    /\ env' = "ok"
    /\ UNCHANGED <<pc, graph, outobj, raised, finished, promised, early, failed,
                   schedVars, jobVars>>

\* what the engine and main do once main has been called
EngineStep ==
    \/ RunCWLJob
    \/ RunCWLJobWrapper
    \/ RunCWLWorkflow
    \/ RunResolveIndirect
    \/ RunCWLScatter
    \/ RunCWLGather
    \/ FailOnLoad
    \/ ToilFails
    \/ MainReturns

NextExec ==
    \/ EngineStep
    \/ MainRestart
    \/ MainRestartNoJobStore
    \/ FixPath

SpecExec == InitExec /\ [][NextExec]_vars

TaskIds == 1..Len(graph.tasks)
\* some field of the tool's resource requirement is an expression
AnyExpression(tool) ==
    \E f \in DOMAIN tool.resourceReq :
        tool.resourceReq[f].isString
        /\ (tool.resourceReq[f].hasParen \/ tool.resourceReq[f].hasBrace)
\* c is the leaf job that the deferred-wrap job w made for its own step
IsRealJobOf(c, w) ==
    /\ graph.tasks[w].kind = "CWLJobWrapper"
    /\ graph.tasks[c].kind = "CWLJob"
    /\ graph.tasks[c].step = graph.tasks[w].step
    /\ hasChild(graph, w, c)
RealJobsOf(w) == {c \in TaskIds : IsRealJobOf(c, w)}
IsRealJob(c) == \E w \in TaskIds : IsRealJobOf(c, w)

\* C11: the job made for a tool is a leaf job when no field of the tool's
\* resource requirement is an expression and a deferred-wrap job when one is;
\* a deferred-wrap job that has not run has made no leaf job, and one that
\* has run has made exactly one, as its child, for the same tool and the
\* same pending input, and has returned the promise of that job's result.
C11_WrapperMakesOneRealJob ==
    /\ cwlwf.class = "CommandLineTool" =>
          graph.tasks[RootJob].kind =
              IF AnyExpression(cwlwf) THEN "CWLJobWrapper" ELSE "CWLJob"
    /\ \A t \in TaskIds :
          /\ (graph.tasks[t].kind = "CWLJob" /\ ~IsRealJob(t)) =>
                ~AnyExpression(graph.tasks[t].tool)
          /\ graph.tasks[t].kind = "CWLJobWrapper" =>
                /\ AnyExpression(graph.tasks[t].tool)
                /\ t \notin finished => RealJobsOf(t) = {}
                /\ t \in finished =>
                      \E c \in TaskIds :
                          /\ RealJobsOf(t) = {c}
                          /\ graph.tasks[c].tool = graph.tasks[t].tool
                          /\ graph.tasks[c].cwljob = graph.tasks[t].cwljob
                          /\ promised[t] = {c}
                          /\ returned[t] = PromiseV(c)

C11_Witness ==
    /\ cwlwf.class = "CommandLineTool"
    /\ DOMAIN cwlwf.resourceReq = {"ramMin", "outdirMax"}
    /\ cwlwf.resourceReq["ramMin"] = Number
    /\ cwlwf.resourceReq["outdirMax"] = String(FALSE, TRUE)
    /\ finished = {1, 2}
    /\ IsRealJobOf(2, 1)

\* a value that holds no promise, no pending mapping and no missing result
RECURSIVE Concrete(_)
Concrete(v) ==
    IF v.t = "list" THEN \A n \in 1..Len(v.v) : Concrete(v.v[n])
    ELSE v.t \in {"int", "None", "eval"}
OutputNames(doc) == {Shortname(doc.outputs[k].id) : k \in 1..Len(doc.outputs)}
\* the job whose run produced the result that job p returns
RECURSIVE ProducerOf(_)
ProducerOf(p) == IF returned[p].t = "promise" THEN ProducerOf(returned[p].v) ELSE p
\* the workflow job w returned a promise of the job of the step that an
\* output's source names: the value that job's producer returned under the
\* name of the source
ProducedUnder(w, out) ==
    LET p == CHOOSE j \in promised[w] : graph.tasks[j].step = out.outputSource[1]
    IN  returned[ProducerOf(p)].v[Shortname(out.outputSource)]
\* m is the result of the workflow doc that job w ran
IsResultOf(m, w, doc) ==
    /\ DOMAIN m = OutputNames(doc)
    /\ \A k \in 1..Len(doc.outputs) :
          /\ Concrete(m[Shortname(doc.outputs[k].id)])
          /\ m[Shortname(doc.outputs[k].id)] = ProducedUnder(w, doc.outputs[k])

\* C15: the result main reads from a workflow, and the result of the
\* ResolveIndirect job of every workflow job, has exactly one entry per
\* declared output, under the output's short name, holding the concrete
\* value its producer returned under the name of the output's source; every
\* workflow job has one follow-on, a ResolveIndirect job that reads its
\* result, and no other job reads the result of a workflow job.
C15_WorkflowResultIsResolved ==
    /\ (pc = "done" /\ cwlwf.class = "Workflow") => IsResultOf(outobj, RootJob, cwlwf)
    /\ \A w \in TaskIds : graph.tasks[w].kind = "CWLWorkflow" =>
          \E r \in TaskIds :
              /\ graph.tasks[r].kind = "ResolveIndirect"
              /\ {e \in RangeOf(graph.followOns) : e[1] = w} = {<<w, r>>}
              /\ Reads(graph.tasks[r].cwljob) = {w}
              /\ \A t \in TaskIds \ {r} : w \notin Reads(graph.tasks[t].cwljob)
              /\ r \in finished =>
                    /\ returned[r].t = "dict"
                    /\ IsResultOf(returned[r].v, w, graph.tasks[w].tool)

\* a nested workflow and then a deferred-wrap step have run and main has read
\* the result
C15_Witness ==
    /\ pc = "done"
    /\ Len(cwlwf.steps) = 2
    /\ cwlwf.steps[1].embedded_tool.class = "Workflow"
    /\ AnyExpression(cwlwf.steps[2].embedded_tool)
    /\ DOMAIN outobj = {"result", "first"}
    /\ outobj["result"].t = "int"
    /\ outobj["first"].t = "int"
    /\ outobj["first"] # outobj["result"]
    /\ \E r \in finished :
          graph.tasks[r].kind = "ResolveIndirect" /\ r # 2 /\ "out" \in DOMAIN returned[r].v

\* the jobs whose return values make up the value of a promise of job p
RECURSIVE Behind(_)
Behind(p) ==
    {p} \cup (IF p \in DOMAIN promised THEN UNION {Behind(k) : k \in promised[p]} ELSE {})
\* the jobs that read, through their promises, a value of a job in S
ReadersOf(S) ==
    {c \in TaskIds : \E p \in Reads(graph.tasks[c].cwljob) : Behind(p) \cap S # {}}
\* the jobs that consume a value of a job in S, directly or transitively
RECURSIVE ConsumersOf(_, _)
ConsumersOf(S, k) ==
    IF k = 0 THEN ReadersOf(S) ELSE ConsumersOf(S \cup ReadersOf(S), k - 1)
\* the tool of leaf job f did not succeed
LeafFailed(f) == f \in DOMAIN failed /\ failed[f] = "WorkflowException"

\* C16: a leaf job whose tool did not succeed has failed and has returned no
\* output object, and no job that consumes an output of its step, directly
\* or through other jobs, has run.
C16_FailedLeafStopsConsumers ==
    \A f \in TaskIds : LeafFailed(f) =>
        /\ f \notin finished
        /\ f \notin DOMAIN returned
        /\ ConsumersOf({f}, Len(graph.tasks)) \cap finished = {}

\* what does hold: the consumers of a failed leaf job that no deferred-wrap
\* job made never run
FailedPlainLeafStopsConsumers ==
    \A f \in TaskIds : (LeafFailed(f) /\ ~IsRealJob(f)) =>
        /\ f \notin finished
        /\ f \notin DOMAIN returned
        /\ ConsumersOf({f}, Len(graph.tasks)) \cap finished = {}

\* the engine has started job t: its run has returned or has failed
Begun(t) == t \in finished \/ t \in DOMAIN failed

\* C23: a gather job is started only when its scatter job and every child
\* the scatter job created have finished, and with them the leaf job under
\* every deferred-wrap child and the job that holds the result of every
\* child; and a job that reads an output of the scattered step is started
\* only when the gather job has finished.
C23_GatherAfterChildren ==
    \A t \in TaskIds : graph.tasks[t].kind = "CWLGather" =>
        /\ Begun(t) =>
              \E sc \in Predecessors(graph, t) :
              LET ch == ChildrenOf(graph, sc)
              IN  /\ graph.tasks[sc].kind = "CWLScatter"
                  /\ sc \in finished
                  /\ \A n \in 1..Len(ch) :
                        /\ ch[n] \in finished
                        /\ RealJobsOf(ch[n]) \subseteq finished
                        /\ graph.tasks[ch[n]].kind = "CWLJobWrapper" => RealJobsOf(ch[n]) # {}
                        /\ ResultJobOf(graph, ch[n]) \in finished
        /\ \A c \in ReadersOf({t}) : Begun(c) => t \in finished

\* a scatter of a tool with a dynamic resource requirement has made two
\* children, and the step that consumes the gathered output has run
C23_Witness ==
    /\ pc = "done"
    /\ cwlwf = ScatterThen(CommandLineTool(TRUE))
    /\ \E t \in finished :
          /\ graph.tasks[t].kind = "CWLGather"
          /\ \E sc \in Predecessors(graph, t) : Len(ChildrenOf(graph, sc)) = 2
          /\ ReadersOf({t}) \cap finished # {}

\* main with --restart takes up the job store of the failed run as it is
RestartResumes ==
    (pc = "failedRun" /\ pc' = "restart") =>
        (graph' = graph /\ finished' = finished /\ returned' = returned)
\* main with --restart after a run that succeeded finds no job store
RestartAfterSuccessFails ==
    (pc = "done" /\ raised' # raised) =>
        (raised' = "NoSuchJobStoreException" /\ pc' = "done" /\ outobj' = outobj)

\* a restarted run that finds the program on PATH goes on until main returns
RestartedRunSucceeds ==
    (pc = "restart" /\ env = "ok") =>
        /\ pc' \in {"restart", "done"}
        /\ (\E t \in TaskIds : Ready(t)) \/ finished = TaskIds

NoWrappedStep(doc) ==
    \A i \in 1..Len(doc.steps) : ~AnyExpression(doc.steps[i].embedded_tool)
\* what does hold: the restarted run completes when no step is a
\* deferred-wrap step
RestartCompletesWithoutWrappedSteps ==
    [][/\ RestartResumes
       /\ RestartAfterSuccessFails
       /\ NoWrappedStep(cwlwf) => RestartedRunSucceeds]_vars

\* C2: whenever a job resolves its pending input object, every job that produces
\* a value it reads through a promise has finished.
C2_ProducersFinishedBeforeResolve == early = {}
====
